---------------------------- MODULE Spec2Model ----------------------------
(***************************************************************************)
(* A model of MetaPhysFS (src/src/physfs.cpp and the unpacked-archive      *)
(* framework).  C strings are sequences of one-character strings; a        *)
(* character buffer is a sequence of characters in which NUL is the        *)
(* terminator.  Each group of claims has its own specification over the    *)
(* variables of the part of the program it is about; the variables of the  *)
(* other parts stay unchanged.                                             *)
(***************************************************************************)
EXTENDS Integers, Sequences, FiniteSets, TLC

VARIABLES
    sanSrc,        \* sanitizePlatformIndependentPath: the src argument
    sanOut,        \* its outcome [done, ok, dst, err]; done is FALSE before the call
    searchPath,    \* the DirHandle list, head first
    writeDir,      \* the write DirHandle, NoDir for nullptr
    openReadList,  \* the FileHandle list of read handles, head first
    openWriteList, \* the FileHandle list of write handles, head first
    longest_root,  \* the longest sub-root length seen by PHYSFS_setRoot
    allowSymLinks, \* PHYSFS_permitSymbolicLinks flag
    stateLock,     \* the thread that holds stateLock, NoThread when free
    pc,            \* per thread: where it is inside doMount
    errCode,       \* per thread: its current error code
    last,          \* the call that completed last, with what it returned
    data,          \* the bytes behind the streams: a native file or a memory buffer
    ios,           \* the PHYSFS_Io objects, by address
    files,         \* the FileHandle of each PHYSFS_File the application holds
    ghost,         \* history kept for the properties; no code reads it
    reply          \* the stream call that completed last, with what it returned

sanVars == <<sanSrc, sanOut>>

engVars == <<searchPath, writeDir, openReadList, openWriteList, longest_root,
             allowSymLinks, stateLock, pc, errCode, last>>

ioVars == <<data, ios, files, ghost, reply>>

vars == <<sanSrc, sanOut, searchPath, writeDir, openReadList, openWriteList,
          longest_root, allowSymLinks, stateLock, pc, errCode, last,
          data, ios, files, ghost, reply>>

-----------------------------------------------------------------------------
(* Characters and C strings                                                *)

NUL == "NUL"
SLASH == "/"
DOT == "."
COLON == ":"
BACKSLASH == "\\"

\* Error codes (PHYSFS_ErrorCode), by name.
ERR_OK == "OK"
ERR_BAD_FILENAME == "BAD_FILENAME"
ERR_NOT_FOUND == "NOT_FOUND"
ERR_FILES_STILL_OPEN == "FILES_STILL_OPEN"
ERR_NOT_MOUNTED == "NOT_MOUNTED"
ERR_SYMLINK_FORBIDDEN == "SYMLINK_FORBIDDEN"
ERR_NO_WRITE_DIR == "NO_WRITE_DIR"
ERR_NOT_A_FILE == "NOT_A_FILE"
ERR_PAST_EOF == "PAST_EOF"
ERR_READ_ONLY == "READ_ONLY"
ERR_INVALID_ARGUMENT == "INVALID_ARGUMENT"
ERR_IO == "IO"
ERR_UNSUPPORTED == "UNSUPPORTED"
ERR_APP_CALLBACK == "APP_CALLBACK"
ERR_DIR_NOT_EMPTY == "DIR_NOT_EMPTY"
ERR_OPEN_FOR_READING == "OPEN_FOR_READING"
ERR_OPEN_FOR_WRITING == "OPEN_FOR_WRITING"

\* All sequences over S of length 0..n.
SeqsUpTo(S, n) == UNION { [1..k -> S] : k \in 0..n }

\* The character at 1-based position i of the C string s (NUL at and past
\* its end).
CharAt(s, i) == IF i >= 1 /\ i <= Len(s) THEN s[i] ELSE NUL

\* The first position >= i of s that holds no '/'.
RECURSIVE SkipSlashes(_, _)
SkipSlashes(s, i) ==
    IF CharAt(s, i) = SLASH THEN SkipSlashes(s, i + 1) ELSE i

\* s from position i to its end.
Tail_(s, i) == SubSeq(s, i, Len(s))

IsDotOrDotDot(s) == s = <<DOT>> \/ s = <<DOT, DOT>>

-----------------------------------------------------------------------------
(* sanitizePlatformIndependentPath, physfs.cpp 754-799.                    *)
(* The do/while loop: i is the read position in src, dst the characters    *)
(* written so far, prev the 1-based position in dst at which the current   *)
(* segment starts.  The result is [ok, dst, err].                          *)

RECURSIVE SanitizeLoop(_, _, _, _)
SanitizeLoop(src, i, dst, prev) ==
    LET ch == CharAt(src, i)
        seg == SubSeq(dst, prev, Len(dst))
        j == SkipSlashes(src, i + 1)
    IN  IF ch = COLON \/ ch = BACKSLASH
        THEN [ok |-> FALSE, dst |-> <<>>, err |-> ERR_BAD_FILENAME]
        ELSE IF ch = SLASH
        THEN IF IsDotOrDotDot(seg)
             THEN [ok |-> FALSE, dst |-> <<>>, err |-> ERR_BAD_FILENAME]
             ELSE IF CharAt(src, j) = NUL
                  THEN [ok |-> TRUE, dst |-> dst, err |-> ERR_OK]
                  ELSE SanitizeLoop(src, j, Append(dst, SLASH), Len(dst) + 2)
        ELSE IF ch = NUL
        THEN [ok |-> TRUE, dst |-> dst, err |-> ERR_OK]
        ELSE SanitizeLoop(src, i + 1, Append(dst, ch), prev)

sanitizePlatformIndependentPath(src) ==
    LET start == SkipSlashes(src, 1)
    IN  IF IsDotOrDotDot(Tail_(src, start))
        THEN [ok |-> FALSE, dst |-> <<>>, err |-> ERR_BAD_FILENAME]
        ELSE SanitizeLoop(src, start, <<>>, 1)

-----------------------------------------------------------------------------
(* Path predicates used by the claims                                      *)

\* The '/'-separated segments of a path.
RECURSIVE SegmentsFrom(_, _, _)
SegmentsFrom(s, i, cur) ==
    IF i > Len(s) THEN <<cur>>
    ELSE IF s[i] = SLASH THEN <<cur>> \o SegmentsFrom(s, i + 1, <<>>)
    ELSE SegmentsFrom(s, i + 1, Append(cur, s[i]))

Segments(s) == IF s = <<>> THEN <<>> ELSE SegmentsFrom(s, 1, <<>>)

HasDotSegment(s) ==
    \E k \in 1..Len(Segments(s)) : IsDotOrDotDot(Segments(s)[k])

HasDotDotSegment(s) ==
    \E k \in 1..Len(Segments(s)) : Segments(s)[k] = <<DOT, DOT>>

HasIllegalChar(s) == \E k \in 1..Len(s) : s[k] \in {COLON, BACKSLASH}

HasDoubleSlash(s) == \E k \in 1..(Len(s) - 1) : s[k] = SLASH /\ s[k + 1] = SLASH

HasEdgeSlash(s) == s # <<>> /\ (s[1] = SLASH \/ s[Len(s)] = SLASH)

-----------------------------------------------------------------------------
(* Character buffers.  A buffer is a sequence of characters, NUL included;   *)
(* a char* into it is a 1-based position.                                    *)

RECURSIVE StrLenAt(_, _)
StrLenAt(buf, p) == IF CharAt(buf, p) = NUL THEN 0 ELSE 1 + StrLenAt(buf, p + 1)

\* The C string that starts at position p of buf.
CStr(buf, p) == SubSeq(buf, p, p + StrLenAt(buf, p) - 1)

\* strcpy(buf + p - 1, s): the characters of s and a terminating NUL.
StrCpy(buf, p, s) ==
    [i \in 1..Len(buf) |->
        IF i >= p /\ i < p + Len(s) THEN s[i - p + 1]
        ELSE IF i = p + Len(s) THEN NUL
        ELSE buf[i]]

\* buf[p] = c
PutChar(buf, p, c) == [i \in 1..Len(buf) |-> IF i = p THEN c ELSE buf[i]]

\* strchr(buf + start - 1, '/'): the position of the first '/' at or after
\* start and before the terminating NUL, 0 when there is none.
RECURSIVE StrChrSlash(_, _)
StrChrSlash(buf, start) ==
    IF CharAt(buf, start) = NUL THEN 0
    ELSE IF buf[start] = SLASH THEN start
    ELSE StrChrSlash(buf, start + 1)

\* The buffer the lookups allocate: longest_root + 1 characters of scratch
\* space, the sanitized path, and its terminator.
PathBuffer(scratch, path) == [i \in 1..scratch |-> NUL] \o path \o <<NUL>>

-----------------------------------------------------------------------------
(* The sources that can be mounted, and what their backends report.  "A" is  *)
(* a directory (DIR backend, which can report symbolic links) and so is the  *)
(* write directory "W"; "B" and "H" are archives of the unpacked-archive     *)
(* framework, "H" being the archive stored in the entry "x" of "B".  Each    *)
(* source is a fixed tree, but for the directory "M", in which data.made     *)
(* are the directories that have been made and which holds, when data.link,  *)
(* the directory "a" with the symbolic link "a/b" to a directory.            *)

FT_REGULAR == "REGULAR"
FT_DIRECTORY == "DIRECTORY"
FT_SYMLINK == "SYMLINK"
FT_OTHER == "OTHER"

TreeA == (<<"x">> :> FT_REGULAR) @@ (<<"l">> :> FT_SYMLINK)

TreeB ==
    (<<"g">> :> FT_DIRECTORY) @@ (<<"g", "/", "x">> :> FT_REGULAR)
        @@ (<<"x">> :> FT_REGULAR) @@ (<<"l">> :> FT_REGULAR)

TreeH == (<<"x">> :> FT_REGULAR)

TreeW == (<<"d">> :> FT_DIRECTORY) @@ (<<"l">> :> FT_SYMLINK)

TreeM ==
    [p \in data.made \cup (IF data.link THEN {<<"a">>, <<"a", "/", "b">>} ELSE {}) |->
        IF data.link /\ p = <<"a", "/", "b">> THEN FT_SYMLINK ELSE FT_DIRECTORY]

Tree(dirName) ==
    CASE dirName = "A" -> TreeA
      [] dirName = "B" -> TreeB
      [] dirName = "H" -> TreeH
      [] dirName = "M" -> TreeM
      [] OTHER -> TreeW

IsDirSource(dirName) == dirName \in {"A", "W", "M"}

\* DIR_stat: what the platform reports for the path below the directory.
DIR_stat(dirName, path) ==
    IF path = <<>> THEN [ok |-> TRUE, filetype |-> FT_DIRECTORY, err |-> ERR_OK]
    ELSE IF path \in DOMAIN Tree(dirName)
    THEN [ok |-> TRUE, filetype |-> Tree(dirName)[path], err |-> ERR_OK]
    ELSE [ok |-> FALSE, filetype |-> FT_REGULAR, err |-> ERR_NOT_FOUND]

\* UNPK_stat: an entry of the archive's tree is a directory or a regular
\* file; the empty path is the root of the tree.
UNPK_stat(dirName, path) ==
    IF path = <<>> THEN [ok |-> TRUE, filetype |-> FT_DIRECTORY, err |-> ERR_OK]
    ELSE IF path \in DOMAIN Tree(dirName)
    THEN [ok |-> TRUE,
          filetype |-> IF Tree(dirName)[path] = FT_DIRECTORY
                       THEN FT_DIRECTORY ELSE FT_REGULAR,
          err |-> ERR_OK]
    ELSE [ok |-> FALSE, filetype |-> FT_REGULAR, err |-> ERR_NOT_FOUND]

\* funcs->stat(opaque, path, &statbuf) of a mount: [ok, filetype, err].
ArcStat(dirName, path) ==
    IF IsDirSource(dirName) THEN DIR_stat(dirName, path) ELSE UNPK_stat(dirName, path)

\* What a failed native open leaves behind: no stream and an error code.
NativeOpenFailure == [ok |-> FALSE, err |-> ERR_NOT_FOUND]

\* DIR_openRead: the platform opens what is there and is not a directory; a
\* symbolic link is followed.
DIR_openRead(dirName, path) ==
    IF path \in DOMAIN Tree(dirName) /\ Tree(dirName)[path] # FT_DIRECTORY
    THEN [ok |-> TRUE, err |-> ERR_OK]
    ELSE NativeOpenFailure

\* UNPK_openRead: the entry must be there and must not be a directory.
UNPK_openRead(dirName, path) ==
    IF path = <<>> THEN [ok |-> FALSE, err |-> ERR_NOT_A_FILE]
    ELSE IF path \notin DOMAIN Tree(dirName) THEN [ok |-> FALSE, err |-> ERR_NOT_FOUND]
    ELSE IF Tree(dirName)[path] = FT_DIRECTORY THEN [ok |-> FALSE, err |-> ERR_NOT_A_FILE]
    ELSE [ok |-> TRUE, err |-> ERR_OK]

\* funcs->openRead(opaque, path) of a mount: [ok, err].
ArcOpenRead(dirName, path) ==
    IF IsDirSource(dirName) THEN DIR_openRead(dirName, path)
    ELSE UNPK_openRead(dirName, path)

-----------------------------------------------------------------------------
(* DirHandle and FileHandle.  A DirHandle is                                 *)
(*   [id, dirName, mountPoint, hasRoot, root, io]                            *)
(* where id stands for its address, mountPoint is <<>> for nullptr and ends  *)
(* in '/' otherwise, hasRoot tells whether root is non-null, and io is the   *)
(* id of the FileHandle the archive reads from (0 when it has none).         *)
(* A FileHandle is [id, dirHandle, forReading, io] where dirHandle is the id *)
(* of its DirHandle and io the id of the FileHandle its stream owns through  *)
(* handleIo_duplicate (0 when it owns none).                                 *)

NoThread == "none"

NoDir ==
    [id |-> 0, dirName |-> "", mountPoint |-> <<>>, hasRoot |-> FALSE,
     root |-> <<>>, io |-> 0]

\* The elements of a list, as a set.
Range(list) == { list[k] : k \in 1..Len(list) }

\* The list without the elements for which drop holds.
RECURSIVE Without(_, _)
Without(list, dropIds) ==
    IF list = <<>> THEN <<>>
    ELSE IF list[1].id \in dropIds THEN Without(Tail(list), dropIds)
    ELSE <<list[1]>> \o Without(Tail(list), dropIds)

-----------------------------------------------------------------------------
(* partOfMountPoint, physfs.cpp 820-842: fname is the C string looked up.    *)

partOfMountPoint(h, fname) ==
    IF h.mountPoint = <<>> THEN FALSE
    ELSE IF fname = <<>> THEN TRUE
    ELSE LET len == Len(fname)
             mntpntlen == Len(h.mountPoint)
         IN  IF len > mntpntlen THEN FALSE
             ELSE IF len + 1 = mntpntlen THEN FALSE
             ELSE IF SubSeq(h.mountPoint, 1, len) # fname THEN FALSE
             ELSE CharAt(h.mountPoint, len + 1) = SLASH

-----------------------------------------------------------------------------
(* verifyPath, physfs.cpp 1784-1861.  buf is the caller's buffer and fname   *)
(* the position in it of the path; e is the calling thread's error code.     *)
(* The result is [ok, buf, fname, err, stats]: the buffer as verifyPath      *)
(* leaves it, the position *_fname ends at, the thread's error code          *)
(* afterwards, and the paths it passed to funcs->stat.                       *)

\* A match of the mount point that does not look at the character after it.
VerifyMountPoint_NoBoundary(h, buf, fname) ==
    IF h.mountPoint = <<>> THEN [ok |-> TRUE, fname |-> fname]
    ELSE LET mntpntlen == Len(h.mountPoint)
             moved == fname + mntpntlen - 1
         IN  IF StrLenAt(buf, fname) < mntpntlen - 1 THEN [ok |-> FALSE, fname |-> fname]
             ELSE IF SubSeq(h.mountPoint, 1, mntpntlen - 1)
                        # SubSeq(buf, fname, fname + mntpntlen - 2)
             THEN [ok |-> FALSE, fname |-> fname]
             ELSE [ok |-> TRUE,
                   fname |-> IF CharAt(buf, moved) = SLASH THEN moved + 1 ELSE moved]

\* Lines 1794-1811: match and skip the mount point.
VerifyMountPoint(h, buf, fname) ==
    IF h.mountPoint = <<>> THEN [ok |-> TRUE, fname |-> fname]
    ELSE LET mntpntlen == Len(h.mountPoint)
             len == StrLenAt(buf, fname)
             moved == fname + mntpntlen - 1
         IN  IF len < mntpntlen - 1 THEN [ok |-> FALSE, fname |-> fname]
             ELSE IF SubSeq(h.mountPoint, 1, mntpntlen - 1)
                        # SubSeq(buf, fname, fname + mntpntlen - 2)
             THEN [ok |-> FALSE, fname |-> fname]
             ELSE IF len > mntpntlen - 1 /\ CharAt(buf, moved) # SLASH
             THEN [ok |-> FALSE, fname |-> fname]
             ELSE [ok |-> TRUE,
                   fname |-> IF CharAt(buf, moved) = SLASH THEN moved + 1 ELSE moved]

\* Lines 1814-1821: write the root and a '/' in front of the path.
VerifyPrependRoot(h, buf, fname) ==
    IF ~h.hasRoot THEN [buf |-> buf, fname |-> fname]
    ELSE LET isempty == CharAt(buf, fname) = NUL
             rootlen == Len(h.root)
             moved == fname - (rootlen + (IF isempty THEN 0 ELSE 1))
             copied == StrCpy(buf, moved, h.root)
         IN  [buf |-> IF isempty THEN copied ELSE PutChar(copied, moved + rootlen, SLASH),
              fname |-> moved]

\* A walk that stats nothing and lets every path through.
VerifySymlinkWalk_Blind(h, buf, fname, start, allowMissing, e, stats) ==
    [ok |-> TRUE, err |-> e, stats |-> {}]

\* A walk that lets a missing element through only when allowMissing, the
\* last element too.
RECURSIVE VerifySymlinkWalk_Strict(_, _, _, _, _, _, _)
VerifySymlinkWalk_Strict(h, buf, fname, start, allowMissing, e, stats) ==
    LET end == StrChrSlash(buf, start)
        Visit(prefix, st, e1) ==
            IF st.ok /\ st.filetype = FT_SYMLINK
            THEN [ok |-> FALSE, err |-> ERR_SYMLINK_FORBIDDEN,
                  stats |-> stats \cup {prefix}]
            ELSE IF ~st.ok /\ e1 = ERR_NOT_FOUND
            THEN [ok |-> allowMissing, err |-> e1, stats |-> stats \cup {prefix}]
            ELSE IF end = 0
            THEN [ok |-> TRUE, err |-> e1, stats |-> stats \cup {prefix}]
            ELSE VerifySymlinkWalk_Strict(h, buf, fname, end + 1, allowMissing, e1,
                                          stats \cup {prefix})
        Stat(prefix, st) == Visit(prefix, st, IF st.ok THEN e ELSE st.err)
        Prefix(prefix) == Stat(prefix, ArcStat(h.dirName, prefix))
    IN  Prefix(IF end = 0 THEN CStr(buf, fname) ELSE SubSeq(buf, fname, end - 1))

\* Lines 1824-1858: stat every prefix of the path that ends before a '/' or
\* at the end of the path.
RECURSIVE VerifySymlinkWalk(_, _, _, _, _, _, _)
VerifySymlinkWalk(h, buf, fname, start, allowMissing, e, stats) ==
    LET end == StrChrSlash(buf, start)
        Visit(prefix, st, e1) ==
            IF st.ok /\ st.filetype = FT_SYMLINK
            THEN [ok |-> FALSE, err |-> ERR_SYMLINK_FORBIDDEN,
                  stats |-> stats \cup {prefix}]
            ELSE IF ~st.ok /\ e1 = ERR_NOT_FOUND
            THEN [ok |-> (end = 0 \/ allowMissing), err |-> e1,
                  stats |-> stats \cup {prefix}]
            ELSE IF end = 0
            THEN [ok |-> TRUE, err |-> e1, stats |-> stats \cup {prefix}]
            ELSE VerifySymlinkWalk(h, buf, fname, end + 1, allowMissing, e1,
                                   stats \cup {prefix})
        Stat(prefix, st) == Visit(prefix, st, IF st.ok THEN e ELSE st.err)
        Prefix(prefix) == Stat(prefix, ArcStat(h.dirName, prefix))
    IN  Prefix(IF end = 0 THEN CStr(buf, fname) ELSE SubSeq(buf, fname, end - 1))

verifyPath(h, buf, fname, allowMissing, allowSym, e) ==
    LET Walked(rt, walk) ==
            [ok |-> walk.ok, buf |-> rt.buf, fname |-> rt.fname,
             err |-> walk.err, stats |-> walk.stats]
        Rooted(rt) ==
            IF allowSym
            THEN [ok |-> TRUE, buf |-> rt.buf, fname |-> rt.fname, err |-> e,
                  stats |-> {}]
            ELSE Walked(rt, VerifySymlinkWalk(h, rt.buf, rt.fname, rt.fname,
                                              allowMissing, e, {}))
        Stripped(mp) ==
            IF ~mp.ok
            THEN [ok |-> FALSE, buf |-> buf, fname |-> fname,
                  err |-> ERR_NOT_FOUND, stats |-> {}]
            ELSE Rooted(VerifyPrependRoot(h, buf, mp.fname))
    IN  IF CharAt(buf, fname) = NUL /\ ~h.hasRoot
        THEN [ok |-> TRUE, buf |-> buf, fname |-> fname, err |-> e, stats |-> {}]
        ELSE Stripped(VerifyMountPoint(h, buf, fname))

-----------------------------------------------------------------------------
(* The mount engine                                                          *)

Threads == {"t1", "t2"}

\* A null char* argument, as a name and as a path.
NullName == "NULL"
NullPath == <<NUL>>

\* The record of a call that has returned: the operation, the calling thread,
\* its name and path arguments, what it returned (0 is failure or nullptr; an
\* open returns the id of the new FileHandle), the backend functions it
\* invoked as [dh, dirName, fn, path, walk] records (walk marks the stats
\* of verifyPath), and how many times it invoked the user's callback.
Returned(op, t, name, path, ret, calls, cbs) ==
    [op |-> op, t |-> t, name |-> name, path |-> path, ret |-> ret,
     calls |-> calls, cbs |-> cbs]

NoCall == Returned("none", "t1", "", <<>>, 0, {}, 0)

Idle == [at |-> "idle", io |-> 0, fname |-> "", mountPoint |-> <<>>,
         appendToPath |-> FALSE, op |-> ""]

\* The smallest positive number not in S: the address of a fresh object.
MinUnused(S) ==
    CHOOSE n \in 1..(Cardinality(S) + 1) :
        n \notin S /\ \A m \in 1..(n - 1) : m \in S

OpenHandles == Range(openReadList) \cup Range(openWriteList)

\* The address the allocator gives a new DirHandle for the source dirName:
\* one that no live DirHandle has and no FileHandle points to.  Each source
\* draws from addresses of its own.
AddressesOf(dirName, n) ==
    LET first == CASE dirName = "A" -> 1 [] dirName = "B" -> 2
                   [] dirName = "H" -> 3 [] OTHER -> 4
    IN  { first + 4 * j : j \in 0..n }

FreshDirId(dirName, used) ==
    CHOOSE n \in AddressesOf(dirName, Cardinality(used)) :
        n \notin used /\ \A m \in AddressesOf(dirName, Cardinality(used)) :
                            m < n => m \in used

\* Addresses a new DirHandle cannot get: those of the live DirHandles and
\* those a FileHandle still points to.
UsedDirIds(sp, wd, handles) ==
    { d.id : d \in Range(sp) } \cup {wd.id} \cup { f.dirHandle : f \in handles }

UsedFileIds ==
    { f.id : f \in OpenHandles } \cup { f.io : f \in OpenHandles }
        \cup { d.io : d \in Range(searchPath) } \cup { pc[t].io : t \in Threads }

\* The FileHandles PHYSFS_close(id) closes: the handle and, through
\* handleIo_destroy, the handle its stream owns, and so on.
RECURSIVE ClosedWith(_, _)
ClosedWith(handles, id) ==
    IF \E f \in handles : f.id = id
    THEN LET f == CHOOSE g \in handles : g.id = id
         IN  {id} \cup ClosedWith(handles \ {f}, f.io)
    ELSE {}

\* A handle the application holds: no mount and no other handle owns it.
UserOwned(f) ==
    /\ \A d \in Range(searchPath) : d.io # f.id
    /\ \A g \in OpenHandles : g.io # f.id
    /\ \A t \in Threads : pc[t].io # f.id

\* A stateLock that any thread can grab at any time.
CanGrab_NoLock(t) == TRUE

\* stateLock is free for thread t to grab.
CanGrab(t) == stateLock = NoThread

\* openDirectory, physfs.cpp 695-744: [ok, err].  Without an io the name must
\* exist on disk: "A", "W", "M" are directories, "B" is an archive file.  With
\* an io (the id of a FileHandle) some archiver must claim what it reads: the
\* files of "B" hold the archive "H".
openDirectory(io, d, forWriting) ==
    IF io = 0
    THEN IF d \in {"A", "W", "M"} THEN [ok |-> TRUE, err |-> ERR_OK]
         ELSE IF d = "B" /\ ~forWriting THEN [ok |-> TRUE, err |-> ERR_OK]
         ELSE IF d = "B" THEN [ok |-> FALSE, err |-> ERR_UNSUPPORTED]
         ELSE [ok |-> FALSE, err |-> ERR_NOT_FOUND]
    ELSE IF \E f \in OpenHandles, h \in Range(searchPath) :
                f.id = io /\ f.dirHandle = h.id /\ h.dirName = "B"
         THEN [ok |-> TRUE, err |-> ERR_OK]
         ELSE [ok |-> FALSE, err |-> ERR_UNSUPPORTED]

\* createDirHandle, physfs.cpp 845-891: [ok, dh, err].  mountPoint is the
\* argument string, NullPath for nullptr.
createDirHandle(io, newDir, mountPoint, forWriting, id) ==
    LET Made(san, od) ==
            IF ~san.ok THEN [ok |-> FALSE, dh |-> NoDir, err |-> san.err]
            ELSE IF ~od.ok THEN [ok |-> FALSE, dh |-> NoDir, err |-> od.err]
            ELSE [ok |-> TRUE,
                  dh |-> [id |-> id, dirName |-> newDir,
                          mountPoint |-> IF san.dst = <<>> THEN <<>>
                                         ELSE san.dst \o <<SLASH>>,
                          hasRoot |-> FALSE, root |-> <<>>, io |-> io],
                  err |-> ERR_OK]
    IN  Made(IF mountPoint = NullPath
             THEN [ok |-> TRUE, dst |-> <<>>, err |-> ERR_OK]
             ELSE sanitizePlatformIndependentPath(mountPoint),
             openDirectory(io, newDir, forWriting))

\* A freeDirHandle that frees whatever it is given.
freeDirHandle_Unchecked(dh, openList) == TRUE

\* freeDirHandle, physfs.cpp 894-909: refuses while a handle of openList
\* points to dh.
freeDirHandle(dh, openList) ==
    ~\E k \in 1..Len(openList) : openList[k].dirHandle = dh.id

\* Lines 1510-1515 of doMount: is fname already in the search path?
AlreadyMounted(sp, fname) == \E k \in 1..Len(sp) : sp[k].dirName = fname

\* doMount, physfs.cpp 1495-1533, first half: grab stateLock and look for
\* fname in the search path.  Found: release the lock and return 1.  Not
\* found: go on to createDirHandle with the lock held.
doMountScan(t, op, io, fname, mountPoint, appendToPath) ==
    /\ pc[t].at = "idle"
    /\ CanGrab(t)
    /\ IF AlreadyMounted(searchPath, fname)
       THEN /\ last' = Returned(op, t, fname, mountPoint, 1, {}, 0)
            /\ UNCHANGED <<stateLock, pc>>
       ELSE /\ stateLock' = t
            /\ pc' = [pc EXCEPT ![t] =
                        [at |-> "link", io |-> io, fname |-> fname,
                         mountPoint |-> IF mountPoint = NullPath THEN <<SLASH>>
                                        ELSE mountPoint,
                         appendToPath |-> appendToPath, op |-> op]]
            /\ UNCHANGED last
    /\ UNCHANGED <<searchPath, writeDir, openReadList, openWriteList,
                   longest_root, allowSymLinks, errCode, sanVars, ioVars>>

\* doMount, second half: createDirHandle, link the new DirHandle at the head
\* or at the tail, release stateLock.  When it fails PHYSFS_mountHandle
\* leaves the file to the caller (lines 1581-1585).
doMountLink(t) ==
    /\ pc[t].at = "link"
    /\ LET m == pc[t]
           Link(cd) ==
               /\ searchPath' = IF ~cd.ok THEN searchPath
                                ELSE IF m.appendToPath THEN Append(searchPath, cd.dh)
                                ELSE <<cd.dh>> \o searchPath
               /\ errCode' = IF cd.ok THEN errCode ELSE [errCode EXCEPT ![t] = cd.err]
               /\ last' = Returned(m.op, t, m.fname, m.mountPoint,
                                   IF cd.ok THEN 1 ELSE 0, {}, 0)
       IN  Link(createDirHandle(m.io, m.fname, m.mountPoint, FALSE,
                                FreshDirId(m.fname, UsedDirIds(searchPath, writeDir,
                                                               OpenHandles))))
    /\ stateLock' = NoThread
    /\ pc' = [pc EXCEPT ![t] = Idle]
    /\ UNCHANGED <<writeDir, openReadList, openWriteList, longest_root,
                   allowSymLinks, sanVars, ioVars>>

\* PHYSFS_mount, physfs.cpp 1590-1595.
PHYSFS_mount(t, newDir, mountPoint, appendToPath) ==
    doMountScan(t, "mount", 0, newDir, mountPoint, appendToPath)

\* PHYSFS_mountHandle, physfs.cpp 1568-1588: file is a read handle the
\* application holds.
PHYSFS_mountHandle(t, file, fname, mountPoint, appendToPath) ==
    /\ \E f \in Range(openReadList) : f.id = file /\ UserOwned(f)
    /\ doMountScan(t, "mountHandle", file, fname, mountPoint, appendToPath)

\* PHYSFS_unmount, physfs.cpp 1605-1630.  closeArchive of a handle-backed
\* archive closes the FileHandle it reads from.
PHYSFS_unmount(t, oldDir) ==
    /\ pc[t].at = "idle"
    /\ CanGrab(t)
    /\ LET ks == { k \in 1..Len(searchPath) : searchPath[k].dirName = oldDir }
           k == CHOOSE j \in ks : \A j2 \in ks : j <= j2
           closed == ClosedWith(Range(openReadList), searchPath[k].io)
       IN  IF ks = {}
           THEN /\ errCode' = [errCode EXCEPT ![t] = ERR_NOT_MOUNTED]
                /\ last' = Returned("unmount", t, oldDir, <<>>, 0, {}, 0)
                /\ UNCHANGED <<searchPath, openReadList>>
           ELSE IF ~freeDirHandle(searchPath[k], openReadList)
           THEN /\ errCode' = [errCode EXCEPT ![t] = ERR_FILES_STILL_OPEN]
                /\ last' = Returned("unmount", t, oldDir, <<>>, 0, {}, 0)
                /\ UNCHANGED <<searchPath, openReadList>>
           ELSE /\ searchPath' = SubSeq(searchPath, 1, k - 1)
                                    \o SubSeq(searchPath, k + 1, Len(searchPath))
                /\ openReadList' = Without(openReadList, closed)
                /\ last' = Returned("unmount", t, oldDir, <<>>, 1, {}, 0)
                /\ UNCHANGED errCode
    /\ UNCHANGED <<writeDir, openWriteList, longest_root, allowSymLinks,
                   stateLock, pc, sanVars, ioVars>>

\* PHYSFS_setWriteDir, physfs.cpp 1435-1454.
PHYSFS_setWriteDir(t, newDir) ==
    /\ pc[t].at = "idle"
    /\ CanGrab(t)
    /\ LET Set(cd) ==
               /\ writeDir' = cd.dh
               /\ errCode' = IF cd.ok THEN errCode ELSE [errCode EXCEPT ![t] = cd.err]
               /\ last' = Returned("setWriteDir", t, newDir, <<>>,
                                   IF cd.ok THEN 1 ELSE 0, {}, 0)
       IN  IF writeDir.id # 0 /\ ~freeDirHandle(writeDir, openWriteList)
           THEN /\ errCode' = [errCode EXCEPT ![t] = ERR_FILES_STILL_OPEN]
                /\ last' = Returned("setWriteDir", t, newDir, <<>>, 0, {}, 0)
                /\ UNCHANGED writeDir
           ELSE IF newDir = NullName
           THEN /\ writeDir' = NoDir
                /\ last' = Returned("setWriteDir", t, newDir, <<>>, 1, {}, 0)
                /\ UNCHANGED errCode
           ELSE Set(createDirHandle(0, newDir, NullPath, TRUE,
                                    FreshDirId(newDir, UsedDirIds(searchPath, NoDir,
                                                                  OpenHandles))))
    /\ UNCHANGED <<searchPath, openReadList, openWriteList, longest_root,
                   allowSymLinks, stateLock, pc, sanVars, ioVars>>

\* A backend call, as recorded in last.calls.
Call(h, fn, path, walk) ==
    [dh |-> h.id, dirName |-> h.dirName, fn |-> fn, path |-> path, walk |-> walk]

\* The stats verifyPath made on h.
WalkCalls(h, v) == { Call(h, "stat", q, TRUE) : q \in v.stats }

\* The loop of PHYSFS_openRead, physfs.cpp 2339-2346, from the k-th DirHandle
\* on.  Every iteration starts from the same position fname of the same
\* buffer.  The result is [found, err, calls]: the index of the DirHandle
\* whose openRead gave a stream (0 when none did).
RECURSIVE OpenReadLoop(_, _, _, _, _, _, _)
OpenReadLoop(sp, k, buf, fname, allowSym, e, calls) ==
    LET Opened(v, io, opened) ==
            IF ~io.ok
            THEN OpenReadLoop(sp, k + 1, v.buf, fname, allowSym, io.err, opened)
            ELSE [found |-> k, err |-> v.err, calls |-> opened]
        Walked(v, arcfname, walked) ==
            IF ~v.ok
            THEN OpenReadLoop(sp, k + 1, v.buf, fname, allowSym, v.err, walked)
            ELSE Opened(v, ArcOpenRead(sp[k].dirName, arcfname),
                        walked \cup {Call(sp[k], "openRead", arcfname, FALSE)})
        Verified(v) == Walked(v, CStr(v.buf, v.fname), calls \cup WalkCalls(sp[k], v))
    IN  IF k > Len(sp) THEN [found |-> 0, err |-> e, calls |-> calls]
        ELSE Verified(verifyPath(sp[k], buf, fname, FALSE, allowSym, e))

\* PHYSFS_openRead, physfs.cpp 2318-2368.  The stream of an entry of a
\* handle-backed archive owns a duplicate of the archive's FileHandle, which
\* handleIo_duplicate (356-381) links into openReadList first.
PHYSFS_openRead(t, fname) ==
    /\ pc[t].at = "idle"
    /\ CanGrab(t)
    /\ LET Linked(r, i, origfh, newId, fhId) ==
               /\ errCode' = [errCode EXCEPT ![t] = r.err]
               /\ last' = Returned("openRead", t, "", fname, fhId, r.calls, 0)
               /\ openReadList' =
                      <<[id |-> fhId, dirHandle |-> i.id, forReading |-> TRUE,
                         io |-> IF i.io = 0 THEN 0 ELSE newId]>>
                      \o (IF i.io = 0 THEN <<>>
                          ELSE <<[id |-> newId, dirHandle |-> origfh.dirHandle,
                                  forReading |-> origfh.forReading, io |-> 0]>>)
                      \o openReadList
           Found(r, i, newId) ==
               Linked(r, i, CHOOSE f \in Range(openReadList) : f.id = i.io, newId,
                      IF i.io = 0 THEN newId ELSE MinUnused(UsedFileIds \cup {newId}))
           Looked(r) ==
               IF r.found = 0
               THEN /\ errCode' = [errCode EXCEPT ![t] = r.err]
                    /\ last' = Returned("openRead", t, "", fname, 0, r.calls, 0)
                    /\ UNCHANGED openReadList
               ELSE Found(r, searchPath[r.found], MinUnused(UsedFileIds))
           Sanitized(san) ==
               IF ~san.ok
               THEN /\ errCode' = [errCode EXCEPT ![t] = san.err]
                    /\ last' = Returned("openRead", t, "", fname, 0, {}, 0)
                    /\ UNCHANGED openReadList
               ELSE Looked(OpenReadLoop(searchPath, 1,
                                        PathBuffer(longest_root + 1, san.dst),
                                        longest_root + 2, allowSymLinks, errCode[t], {}))
       IN  IF searchPath = <<>>
           THEN /\ errCode' = [errCode EXCEPT ![t] = ERR_NOT_FOUND]
                /\ last' = Returned("openRead", t, "", fname, 0, {}, 0)
                /\ UNCHANGED openReadList
           ELSE Sanitized(sanitizePlatformIndependentPath(fname))
    /\ UNCHANGED <<searchPath, writeDir, openWriteList, longest_root,
                   allowSymLinks, stateLock, pc, sanVars, ioVars>>

\* The directory that holds path: the path without its last segment.
RECURSIVE ParentOf(_)
ParentOf(path) ==
    IF path = <<>> THEN <<>>
    ELSE IF path[Len(path)] = SLASH THEN SubSeq(path, 1, Len(path) - 1)
    ELSE ParentOf(SubSeq(path, 1, Len(path) - 1))

\* DIR_openWrite and DIR_openAppend: the platform creates or opens the file
\* when its directory exists and the name is not that of a directory.
DIR_openWrite(dirName, path) ==
    IF /\ path # <<>>
       /\ ArcStat(dirName, ParentOf(path)).ok
       /\ ArcStat(dirName, ParentOf(path)).filetype = FT_DIRECTORY
       /\ ~(ArcStat(dirName, path).ok /\ ArcStat(dirName, path).filetype = FT_DIRECTORY)
    THEN [ok |-> TRUE, err |-> ERR_OK]
    ELSE NativeOpenFailure

\* doOpenWrite, physfs.cpp 2262-2308.
doOpenWrite(t, fname, appending) ==
    /\ pc[t].at = "idle"
    /\ CanGrab(t)
    /\ LET h == writeDir
           op == IF appending THEN "openAppend" ELSE "openWrite"
           Opened(v, arcfname, io, id) ==
               /\ errCode' = [errCode EXCEPT ![t] = IF io.ok THEN v.err ELSE io.err]
               /\ last' = Returned(op, t, "", fname, IF io.ok THEN id ELSE 0,
                                   WalkCalls(h, v) \cup {Call(h, op, arcfname, FALSE)}, 0)
               /\ openWriteList' =
                      IF io.ok
                      THEN <<[id |-> id, dirHandle |-> h.id, forReading |-> FALSE,
                              io |-> 0]>> \o openWriteList
                      ELSE openWriteList
           Walked(v, arcfname) ==
               Opened(v, arcfname, DIR_openWrite(h.dirName, arcfname),
                      MinUnused(UsedFileIds))
           Verified(v) ==
               IF ~v.ok
               THEN /\ errCode' = [errCode EXCEPT ![t] = v.err]
                    /\ last' = Returned(op, t, "", fname, 0, WalkCalls(h, v), 0)
                    /\ UNCHANGED openWriteList
               ELSE Walked(v, CStr(v.buf, v.fname))
           Sanitized(san) ==
               IF ~san.ok
               THEN /\ errCode' = [errCode EXCEPT ![t] = san.err]
                    /\ last' = Returned(op, t, "", fname, 0, {}, 0)
                    /\ UNCHANGED openWriteList
               ELSE Verified(verifyPath(h, PathBuffer(Len(h.root), san.dst), 1, FALSE,
                                        allowSymLinks, errCode[t]))
       IN  IF h.id = 0
           THEN /\ errCode' = [errCode EXCEPT ![t] = ERR_NO_WRITE_DIR]
                /\ last' = Returned(op, t, "", fname, 0, {}, 0)
                /\ UNCHANGED openWriteList
           ELSE Sanitized(sanitizePlatformIndependentPath(fname))
    /\ UNCHANGED <<searchPath, writeDir, openReadList, longest_root,
                   allowSymLinks, stateLock, pc, sanVars, ioVars>>

\* PHYSFS_close, physfs.cpp 2411-2428, of a handle the application holds.
\* flushed is whether PHYSFS_flush and io->flush succeed for a write handle.
PHYSFS_close(t, handle, flushed) ==
    /\ pc[t].at = "idle"
    /\ CanGrab(t)
    /\ \E f \in OpenHandles : f.id = handle /\ UserOwned(f)
    /\ LET f == CHOOSE g \in OpenHandles : g.id = handle
           closed == ClosedWith(OpenHandles, handle)
       IN  /\ flushed \/ ~f.forReading
           /\ IF ~f.forReading /\ ~flushed
              THEN /\ errCode' = [errCode EXCEPT ![t] = ERR_IO]
                   /\ last' = Returned("close", t, "", <<>>, 0, {}, 0)
                   /\ UNCHANGED <<openReadList, openWriteList>>
              ELSE /\ openReadList' = Without(openReadList, closed)
                   /\ openWriteList' = Without(openWriteList, closed)
                   /\ last' = Returned("close", t, "", <<>>, 1, {}, 0)
                   /\ UNCHANGED errCode
    /\ UNCHANGED <<searchPath, writeDir, longest_root, allowSymLinks,
                   stateLock, pc, sanVars, ioVars>>

LongestRootAfter_Kept(longest, rootlen) == longest

\* if (longest_root < i->rootlen) longest_root = i->rootlen; physfs.cpp
\* 1483-1484.
LongestRootAfter(longest, rootlen) ==
    IF longest < rootlen THEN rootlen ELSE longest

\* PHYSFS_setRoot, physfs.cpp 1456-1493.
PHYSFS_setRoot(t, archive, subdir) ==
    /\ pc[t].at = "idle"
    /\ CanGrab(t)
    /\ LET ks == { k \in 1..Len(searchPath) : searchPath[k].dirName = archive }
           Set(k, ptr) ==
               IF ~ptr.ok
               THEN /\ errCode' = [errCode EXCEPT ![t] = ptr.err]
                    /\ last' = Returned("setRoot", t, archive, subdir, 0, {}, 0)
                    /\ UNCHANGED <<searchPath, longest_root>>
               ELSE /\ searchPath' = [searchPath EXCEPT ![k].hasRoot = TRUE,
                                                        ![k].root = ptr.dst]
                    /\ longest_root' = LongestRootAfter(longest_root, Len(ptr.dst))
                    /\ last' = Returned("setRoot", t, archive, subdir, 1, {}, 0)
                    /\ UNCHANGED errCode
           Found(k) ==
               IF subdir = NullPath \/ subdir = <<SLASH>>
               THEN /\ searchPath' = [searchPath EXCEPT ![k].hasRoot = FALSE,
                                                        ![k].root = <<>>]
                    /\ last' = Returned("setRoot", t, archive, subdir, 1, {}, 0)
                    /\ UNCHANGED <<longest_root, errCode>>
               ELSE Set(k, sanitizePlatformIndependentPath(subdir))
       IN  IF ks = {}
           THEN /\ last' = Returned("setRoot", t, archive, subdir, 1, {}, 0)
                /\ UNCHANGED <<searchPath, longest_root, errCode>>
           ELSE Found(CHOOSE j \in ks : \A j2 \in ks : j <= j2)
    /\ UNCHANGED <<writeDir, openReadList, openWriteList, allowSymLinks,
                   stateLock, pc, sanVars, ioVars>>

\* PHYSFS_permitSymbolicLinks, physfs.cpp 1753-1755.
PHYSFS_permitSymbolicLinks(t, allow) ==
    /\ pc[t].at = "idle"
    /\ allowSymLinks' = allow
    /\ last' = Returned("permitSymbolicLinks", t, "", <<>>, 1, {}, 0)
    /\ UNCHANGED <<searchPath, writeDir, openReadList, openWriteList,
                   longest_root, stateLock, pc, errCode, sanVars, ioVars>>

\* What PHYSFS_stat returned: the record of the call and the file type it
\* left in *stat.
StatReturned(t, fname, ret, calls, filetype) ==
    [op |-> "stat", t |-> t, name |-> "", path |-> fname, ret |-> ret,
     calls |-> calls, cbs |-> 0, filetype |-> filetype]

\* The loop of PHYSFS_stat, physfs.cpp 2679-2692: [ret, err, calls, filetype].
\* A backend's stat that fails leaves *stat as line 2661 set it.
RECURSIVE StatLoop(_, _, _, _, _, _, _)
StatLoop(sp, k, buf, fname, allowSym, e, calls) ==
    LET Stated(v, st, stated) ==
            IF st.ok THEN [ret |-> 1, err |-> v.err, calls |-> stated,
                           filetype |-> st.filetype]
            ELSE IF st.err # ERR_NOT_FOUND
            THEN [ret |-> 0, err |-> st.err, calls |-> stated,
                  filetype |-> FT_OTHER]
            ELSE StatLoop(sp, k + 1, v.buf, fname, allowSym, st.err, stated)
        Walked(v, arcfname, walked) ==
            IF ~v.ok
            THEN StatLoop(sp, k + 1, v.buf, fname, allowSym, v.err, walked)
            ELSE Stated(v, ArcStat(sp[k].dirName, arcfname),
                        walked \cup {Call(sp[k], "stat", arcfname, FALSE)})
        Verified(v) == Walked(v, CStr(v.buf, v.fname), calls \cup WalkCalls(sp[k], v))
    IN  IF k > Len(sp)
        THEN [ret |-> 0, err |-> e, calls |-> calls, filetype |-> FT_OTHER]
        ELSE IF partOfMountPoint(sp[k], CStr(buf, fname))
        THEN [ret |-> 1, err |-> e, calls |-> calls, filetype |-> FT_DIRECTORY]
        ELSE Verified(verifyPath(sp[k], buf, fname, FALSE, allowSym, e))

\* PHYSFS_stat, physfs.cpp 2647-2699.
PHYSFS_stat(t, fname) ==
    /\ pc[t].at = "idle"
    /\ CanGrab(t)
    /\ LET Looked(r) ==
               /\ errCode' = [errCode EXCEPT ![t] = r.err]
               /\ last' = StatReturned(t, fname, r.ret, r.calls, r.filetype)
           Sanitized(san) ==
               IF ~san.ok
               THEN /\ errCode' = [errCode EXCEPT ![t] = san.err]
                    /\ last' = StatReturned(t, fname, 0, {}, FT_OTHER)
               ELSE IF san.dst = <<>>
               THEN /\ last' = StatReturned(t, fname, 1, {}, FT_DIRECTORY)
                    /\ UNCHANGED errCode
               ELSE Looked(StatLoop(searchPath, 1, PathBuffer(longest_root + 1, san.dst),
                                    longest_root + 2, allowSymLinks, errCode[t], {}))
       IN  Sanitized(sanitizePlatformIndependentPath(fname))
    /\ UNCHANGED <<searchPath, writeDir, openReadList, openWriteList,
                   longest_root, allowSymLinks, stateLock, pc, sanVars, ioVars>>

\* The loop of getRealDirHandle, physfs.cpp 1968-1981: [ret, err, calls],
\* ret being 1 when a DirHandle is found.
RECURSIVE RealDirLoop(_, _, _, _, _, _, _)
RealDirLoop(sp, k, buf, fname, allowSym, e, calls) ==
    LET Stated(v, st, stated) ==
            IF st.ok THEN [ret |-> 1, err |-> v.err, calls |-> stated]
            ELSE RealDirLoop(sp, k + 1, v.buf, fname, allowSym, st.err, stated)
        Walked(v, arcfname, walked) ==
            IF ~v.ok
            THEN RealDirLoop(sp, k + 1, v.buf, fname, allowSym, v.err, walked)
            ELSE Stated(v, ArcStat(sp[k].dirName, arcfname),
                        walked \cup {Call(sp[k], "stat", arcfname, FALSE)})
        Verified(v) == Walked(v, CStr(v.buf, v.fname), calls \cup WalkCalls(sp[k], v))
    IN  IF k > Len(sp) THEN [ret |-> 0, err |-> e, calls |-> calls]
        ELSE IF partOfMountPoint(sp[k], CStr(buf, fname))
        THEN [ret |-> 1, err |-> e, calls |-> calls]
        ELSE Verified(verifyPath(sp[k], buf, fname, FALSE, allowSym, e))

\* getRealDirHandle, physfs.cpp 1953-1987, as called by PHYSFS_exists
\* (2240-2242) and PHYSFS_getRealDir (1989-1992).
PHYSFS_exists(t, fname) ==
    /\ pc[t].at = "idle"
    /\ CanGrab(t)
    /\ LET Looked(r) ==
               /\ errCode' = [errCode EXCEPT ![t] = r.err]
               /\ last' = Returned("exists", t, "", fname, r.ret, r.calls, 0)
           Sanitized(san) ==
               IF ~san.ok
               THEN /\ errCode' = [errCode EXCEPT ![t] = san.err]
                    /\ last' = Returned("exists", t, "", fname, 0, {}, 0)
               ELSE Looked(RealDirLoop(searchPath, 1,
                                       PathBuffer(longest_root + 1, san.dst),
                                       longest_root + 2, allowSymLinks, errCode[t], {}))
       IN  Sanitized(sanitizePlatformIndependentPath(fname))
    /\ UNCHANGED <<searchPath, writeDir, openReadList, openWriteList,
                   longest_root, allowSymLinks, stateLock, pc, sanVars, ioVars>>

\* The entries of the directory path of a source, in the order its backend
\* enumerates them, each as the path of the entry.
RECURSIVE InOrder(_)
InOrder(S) ==
    IF S = {} THEN <<>>
    ELSE LET q == CHOOSE r \in S : TRUE IN <<q>> \o InOrder(S \ {q})

KidsOf(dirName, path) ==
    InOrder({ q \in DOMAIN Tree(dirName) : ParentOf(q) = path })

\* The last segment of a path.
BaseName(q) == SubSeq(q, Len(ParentOf(q)) + (IF ParentOf(q) = <<>> THEN 1 ELSE 2), Len(q))

ENUM_ERROR == "ENUM_ERROR"
ENUM_STOP == "ENUM_STOP"
ENUM_OK == "ENUM_OK"

\* funcs->enumerate(opaque, arcfname, cb, ...), from the i-th entry on:
\* [retval, err, calls, cbs].  With filter the callback is
\* enumCallbackFilterSymLinks (physfs.cpp 2114-2148), which stats the entry
\* and passes it on unless it is a symbolic link.  answer is what the
\* application's callback returns.
RECURSIVE EnumerateEntries(_, _, _, _, _, _, _, _)
EnumerateEntries(h, kids, i, filter, answer, e, calls, cbs) ==
    LET Entry(st, stated) ==
            IF filter /\ st.filetype = FT_SYMLINK
            THEN EnumerateEntries(h, kids, i + 1, filter, answer, e, stated, cbs)
            ELSE IF answer = ENUM_OK
            THEN EnumerateEntries(h, kids, i + 1, filter, answer, e, stated, cbs + 1)
            ELSE [retval |-> answer,
                  err |-> IF answer = ENUM_ERROR THEN ERR_APP_CALLBACK ELSE e,
                  calls |-> stated, cbs |-> cbs + 1]
    IN  IF i > Len(kids)
        THEN [retval |-> ENUM_OK, err |-> e, calls |-> calls, cbs |-> cbs]
        ELSE Entry(ArcStat(h.dirName, kids[i]),
                   IF filter THEN calls \cup {Call(h, "stat", kids[i], FALSE)}
                   ELSE calls)

\* The loop of PHYSFS_enumerate, physfs.cpp 2177-2210:
\* [retval, err, calls, cbs].
RECURSIVE EnumerateLoop(_, _, _, _, _, _, _, _, _)
EnumerateLoop(sp, k, buf, fname, allowSym, answer, e, calls, cbs) ==
    LET Enumerated(v, en) ==
            IF en.retval # ENUM_OK THEN en
            ELSE EnumerateLoop(sp, k + 1, v.buf, fname, allowSym, answer, en.err,
                               en.calls, en.cbs)
        Stated(v, arcfname, st, stated) ==
            IF ~st.ok
            THEN EnumerateLoop(sp, k + 1, v.buf, fname, allowSym, answer, st.err,
                               stated, cbs)
            ELSE IF st.filetype # FT_DIRECTORY
            THEN EnumerateLoop(sp, k + 1, v.buf, fname, allowSym, answer, v.err,
                               stated, cbs)
            ELSE Enumerated(v, EnumerateEntries(
                                   sp[k], KidsOf(sp[k].dirName, arcfname), 1,
                                   ~allowSym /\ IsDirSource(sp[k].dirName), answer, v.err,
                                   stated \cup {Call(sp[k], "enumerate", arcfname, FALSE)},
                                   cbs))
        Walked(v, arcfname, walked) ==
            IF ~v.ok
            THEN EnumerateLoop(sp, k + 1, v.buf, fname, allowSym, answer, v.err,
                               walked, cbs)
            ELSE Stated(v, arcfname, ArcStat(sp[k].dirName, arcfname),
                        walked \cup {Call(sp[k], "stat", arcfname, FALSE)})
        Verified(v) == Walked(v, CStr(v.buf, v.fname), calls \cup WalkCalls(sp[k], v))
    IN  IF k > Len(sp)
        THEN [retval |-> ENUM_OK, err |-> e, calls |-> calls, cbs |-> cbs]
        ELSE IF partOfMountPoint(sp[k], CStr(buf, fname))
        THEN \* enumerateFromMountPoint, 2081-2104: one callback
             IF answer = ENUM_OK
             THEN EnumerateLoop(sp, k + 1, buf, fname, allowSym, answer, e, calls, cbs + 1)
             ELSE [retval |-> answer,
                   err |-> IF answer = ENUM_ERROR THEN ERR_APP_CALLBACK ELSE e,
                   calls |-> calls, cbs |-> cbs + 1]
        ELSE Verified(verifyPath(sp[k], buf, fname, FALSE, allowSym, e))

\* PHYSFS_enumerate, physfs.cpp 2150-2216.  A path that sanitation rejects
\* sets retval to PHYSFS_ENUM_STOP (2165-2166).
PHYSFS_enumerate(t, fname, answer) ==
    /\ pc[t].at = "idle"
    /\ CanGrab(t)
    /\ LET Looked(r) ==
               /\ errCode' = [errCode EXCEPT ![t] = r.err]
               /\ last' = Returned("enumerate", t, "", fname,
                                   IF r.retval = ENUM_ERROR THEN 0 ELSE 1, r.calls, r.cbs)
           Sanitized(san) ==
               IF ~san.ok
               THEN Looked([retval |-> ENUM_STOP, err |-> san.err, calls |-> {},
                            cbs |-> 0])
               ELSE Looked(EnumerateLoop(searchPath, 1,
                                         PathBuffer(longest_root + 1, san.dst),
                                         longest_root + 2, allowSymLinks, answer,
                                         errCode[t], {}, 0))
       IN  Sanitized(sanitizePlatformIndependentPath(fname))
    /\ UNCHANGED <<searchPath, writeDir, openReadList, openWriteList,
                   longest_root, allowSymLinks, stateLock, pc, sanVars, ioVars>>

\* DIR_remove: the platform deletes a file, a symbolic link or an empty
\* directory.
DIR_remove(dirName, path) ==
    IF path = <<>> \/ path \notin DOMAIN Tree(dirName)
    THEN [ok |-> FALSE, err |-> ERR_NOT_FOUND]
    ELSE IF KidsOf(dirName, path) # <<>> THEN [ok |-> FALSE, err |-> ERR_DIR_NOT_EMPTY]
    ELSE [ok |-> TRUE, err |-> ERR_OK]

\* DIR_mkdir: the platform makes the directory when the name is free and
\* its parent is a directory, or in "M" a link to one; made are the
\* directories this call has made.
DIR_mkdir(dirName, path, made) ==
    IF /\ path # <<>>
       /\ path \notin DOMAIN Tree(dirName)
       /\ path \notin made
       /\ \/ ParentOf(path) \in made
          \/ ArcStat(dirName, ParentOf(path)).ok
             /\ \/ ArcStat(dirName, ParentOf(path)).filetype = FT_DIRECTORY
                \/ dirName = "M"
                   /\ ArcStat(dirName, ParentOf(path)).filetype = FT_SYMLINK
    THEN [ok |-> TRUE, err |-> ERR_OK]
    ELSE [ok |-> FALSE, err |-> ERR_IO]

\* A doDelete that does not look at what sanitation answers.
doDelete_Unsanitized(h, fname, allowSym, e) ==
    LET Removed(v, arcfname, rm) ==
            [ret |-> IF rm.ok THEN 1 ELSE 0,
             err |-> IF rm.ok THEN v.err ELSE rm.err,
             calls |-> WalkCalls(h, v) \cup {Call(h, "remove", arcfname, FALSE)}]
        Walked(v, arcfname) == Removed(v, arcfname, DIR_remove(h.dirName, arcfname))
        Verified(v) ==
            IF ~v.ok THEN [ret |-> 0, err |-> v.err, calls |-> WalkCalls(h, v)]
            ELSE Walked(v, CStr(v.buf, v.fname))
    IN  Verified(verifyPath(h, PathBuffer(Len(h.root), fname), 1, FALSE, allowSym, e))

\* doDelete, physfs.cpp 1930-1935: [ret, err, calls].
doDelete(h, fname, allowSym, e) ==
    LET Removed(v, arcfname, rm) ==
            [ret |-> IF rm.ok THEN 1 ELSE 0,
             err |-> IF rm.ok THEN v.err ELSE rm.err,
             calls |-> WalkCalls(h, v) \cup {Call(h, "remove", arcfname, FALSE)}]
        Walked(v, arcfname) == Removed(v, arcfname, DIR_remove(h.dirName, arcfname))
        Verified(v) ==
            IF ~v.ok THEN [ret |-> 0, err |-> v.err, calls |-> WalkCalls(h, v)]
            ELSE Walked(v, CStr(v.buf, v.fname))
        Sanitized(san) ==
            IF ~san.ok THEN [ret |-> 0, err |-> san.err, calls |-> {}]
            ELSE Verified(verifyPath(h, PathBuffer(Len(h.root), san.dst), 1, FALSE,
                                     allowSym, e))
    IN  Sanitized(sanitizePlatformIndependentPath(fname))

\* PHYSFS_delete, physfs.cpp 1937-1951.
PHYSFS_delete(t, fname) ==
    /\ pc[t].at = "idle"
    /\ CanGrab(t)
    /\ LET Deleted(r) ==
               /\ errCode' = [errCode EXCEPT ![t] = r.err]
               /\ last' = Returned("delete", t, "", fname, r.ret, r.calls, 0)
       IN  IF writeDir.id = 0
           THEN /\ errCode' = [errCode EXCEPT ![t] = ERR_NO_WRITE_DIR]
                /\ last' = Returned("delete", t, "", fname, 0, {}, 0)
           ELSE Deleted(doDelete(writeDir, fname, allowSymLinks, errCode[t]))
    /\ UNCHANGED <<searchPath, writeDir, openReadList, openWriteList,
                   longest_root, allowSymLinks, stateLock, pc, sanVars, ioVars>>

\* The loop of doMkdir, physfs.cpp 1877-1906: [ret, err, calls].  exists is
\* whether every directory before start was there.
RECURSIVE MkdirLoop(_, _, _, _, _, _, _, _)
MkdirLoop(h, buf, dname, start, exists, e, calls, made) ==
    LET end == StrChrSlash(buf, start)
        Made(prefix, exists1, retval, e2, calls1) ==
            IF ~retval \/ end = 0
            THEN [ret |-> IF retval THEN 1 ELSE 0, err |-> e2, calls |-> calls1]
            ELSE MkdirLoop(h, buf, dname, end + 1, exists1, e2, calls1,
                           IF exists1 THEN made ELSE made \cup {prefix})
        Checked(prefix, st, e1, exists1, mk) ==
            Made(prefix, exists1,
                 IF exists1 THEN st.ok /\ st.filetype \in {FT_DIRECTORY, FT_SYMLINK}
                 ELSE mk.ok,
                 IF ~exists1 /\ ~mk.ok THEN mk.err ELSE e1,
                 calls \cup (IF exists THEN {Call(h, "stat", prefix, FALSE)} ELSE {})
                       \cup (IF exists1 THEN {} ELSE {Call(h, "mkdir", prefix, FALSE)}))
        Stated(prefix, st, e1) ==
            Checked(prefix, st, e1, exists /\ ~(~st.ok /\ e1 = ERR_NOT_FOUND),
                    DIR_mkdir(h.dirName, prefix, made))
        Prefix(prefix, st) == Stated(prefix, st, IF exists /\ ~st.ok THEN st.err ELSE e)
        Start(prefix) == Prefix(prefix, ArcStat(h.dirName, prefix))
    IN  Start(IF end = 0 THEN CStr(buf, dname) ELSE SubSeq(buf, dname, end - 1))

\* doMkdir, physfs.cpp 1865-1909: [ret, err, calls].
doMkdir(h, fname, allowSym, e) ==
    LET Verified(v) ==
            IF ~v.ok THEN [ret |-> 0, err |-> v.err, calls |-> WalkCalls(h, v)]
            ELSE MkdirLoop(h, v.buf, v.fname, v.fname, TRUE, v.err, WalkCalls(h, v), {})
        Sanitized(san) ==
            IF ~san.ok THEN [ret |-> 0, err |-> san.err, calls |-> {}]
            ELSE Verified(verifyPath(h, PathBuffer(Len(h.root), san.dst), 1, TRUE,
                                     allowSym, e))
    IN  Sanitized(sanitizePlatformIndependentPath(fname))

\* PHYSFS_mkdir, physfs.cpp 1911-1927.
PHYSFS_mkdir(t, fname) ==
    /\ pc[t].at = "idle"
    /\ CanGrab(t)
    /\ LET Made(r) ==
               /\ errCode' = [errCode EXCEPT ![t] = r.err]
               /\ last' = Returned("mkdir", t, "", fname, r.ret, r.calls, 0)
       IN  IF writeDir.id = 0
           THEN /\ errCode' = [errCode EXCEPT ![t] = ERR_NO_WRITE_DIR]
                /\ last' = Returned("mkdir", t, "", fname, 0, {}, 0)
           ELSE Made(doMkdir(writeDir, fname, allowSymLinks, errCode[t]))
    /\ UNCHANGED <<searchPath, writeDir, openReadList, openWriteList,
                   longest_root, allowSymLinks, stateLock, pc, sanVars, ioVars>>

-----------------------------------------------------------------------------
(* Spec: two threads mounting, unmounting, setting the write directory,     *)
(* opening and closing files.                                                *)

\* No open is attempted while MaxOpen handles are open.
MaxOpen == 2

MountNames == {"B"}
HandleMountNames == {"H"}
WriteDirNames == {NullName, "W"}
MountPointArgs == {NullPath, <<"m">>}
ReadPaths == {<<"x">>, <<"m", "/", "x">>}
WritePaths == {<<"x">>}

\* The state after PHYSFS_init: nothing mounted, nothing open.
EngInit ==
    /\ searchPath = <<>>
    /\ writeDir = NoDir
    /\ openReadList = <<>>
    /\ openWriteList = <<>>
    /\ longest_root = 0
    /\ allowSymLinks = FALSE
    /\ stateLock = NoThread
    /\ pc = [t \in Threads |-> Idle]
    /\ errCode = [t \in Threads |-> ERR_OK]
    /\ last = NoCall

SanIdle ==
    /\ sanSrc = <<>>
    /\ sanOut = [done |-> FALSE, ok |-> FALSE, dst |-> <<>>, err |-> ERR_OK]

IoIdle ==
    /\ data = <<>>
    /\ ios = <<>>
    /\ files = <<>>
    /\ ghost = <<>>
    /\ reply = <<>>

Init == EngInit /\ SanIdle /\ IoIdle

Mount ==
    \E t \in Threads, newDir \in MountNames, mountPoint \in MountPointArgs,
       appendToPath \in BOOLEAN :
        PHYSFS_mount(t, newDir, mountPoint, appendToPath)

MountHandle ==
    \E t \in Threads, f \in Range(openReadList), fname \in HandleMountNames,
       mountPoint \in MountPointArgs, appendToPath \in BOOLEAN :
        PHYSFS_mountHandle(t, f.id, fname, mountPoint, appendToPath)

MountLink == \E t \in Threads : doMountLink(t)

Unmount ==
    \E t \in Threads, oldDir \in MountNames \cup HandleMountNames :
        PHYSFS_unmount(t, oldDir)

SetWriteDir ==
    \E t \in Threads, newDir \in WriteDirNames : PHYSFS_setWriteDir(t, newDir)

OpenRead ==
    \E t \in Threads, fname \in ReadPaths :
        Cardinality(OpenHandles) < MaxOpen /\ PHYSFS_openRead(t, fname)

OpenWrite ==
    \E t \in Threads, fname \in WritePaths, appending \in BOOLEAN :
        Cardinality(OpenHandles) < MaxOpen /\ doOpenWrite(t, fname, appending)

Close ==
    \E t \in Threads, f \in OpenHandles, flushed \in BOOLEAN :
        PHYSFS_close(t, f.id, flushed)

Next ==
    \/ Mount
    \/ MountHandle
    \/ MountLink
    \/ Unmount
    \/ SetWriteDir
    \/ OpenRead
    \/ OpenWrite
    \/ Close

Spec == Init /\ [][Next]_vars

\* The ids of the live DirHandles.
LiveDirIds == { d.id : d \in Range(searchPath) } \cup ({writeDir.id} \ {0})

\* Every open FileHandle points to a live DirHandle.
C1_HandlesPointToLiveMounts == \A f \in OpenHandles : f.dirHandle \in LiveDirIds

\* The mount called name is referenced by an open handle.
MountReferenced(name) ==
    \E d \in Range(searchPath), f \in OpenHandles :
        d.dirName = name /\ f.dirHandle = d.id

WriteDirReferenced ==
    writeDir.id # 0 /\ \E f \in OpenHandles : f.dirHandle = writeDir.id

\* A step that completes PHYSFS_unmount of a referenced mount, or
\* PHYSFS_setWriteDir while the write directory is referenced, returns 0 with
\* FILES_STILL_OPEN and changes neither the mounts nor the open lists.
C1_RefusedWhileReferenced ==
    (/\ last' # last
     /\ \/ last'.op = "unmount" /\ MountReferenced(last'.name)
        \/ last'.op = "setWriteDir" /\ WriteDirReferenced)
    => /\ last'.ret = 0
       /\ errCode'[last'.t] = ERR_FILES_STILL_OPEN
       /\ UNCHANGED <<searchPath, writeDir, openReadList, openWriteList>>

\* C1: in every reachable state every FileHandle on openReadList or
\* openWriteList (the handles linked by handleIo_duplicate included) has a
\* dirHandle that is in searchPath or is writeDir; and PHYSFS_unmount of a
\* mount that such a handle references, or PHYSFS_setWriteDir while the write
\* directory is referenced, fails with FILES_STILL_OPEN and leaves searchPath,
\* writeDir and both open lists unchanged.
C1_OpenHandlesKeepMounts ==
    []C1_HandlesPointToLiveMounts /\ [][C1_RefusedWhileReferenced]_vars

\* An unmount was refused with FILES_STILL_OPEN while a handle of a
\* handle-backed archive, with the duplicate it owns, is open.
C1_Witness ==
    /\ last.op = "unmount"
    /\ last.ret = 0
    /\ errCode[last.t] = ERR_FILES_STILL_OPEN
    /\ \E f, g \in Range(openReadList) : f.io = g.id

\* No two DirHandles of the search path have the same dirName.
C6_NamesDistinct ==
    \A j, k \in 1..Len(searchPath) :
        searchPath[j].dirName = searchPath[k].dirName => j = k

\* A step that completes a mount of a name that is in the search path
\* returns 1 and leaves the search path as it is.
C6_MountAgainIsNoOp ==
    (/\ last' # last
     /\ last'.op \in {"mount", "mountHandle"}
     /\ AlreadyMounted(searchPath, last'.name))
    => /\ last'.ret = 1
       /\ UNCHANGED searchPath

\* C6: mounting a source name that is already in the search path, with any
\* mount point and any append flag, returns success and leaves the search
\* path unchanged (members, order, mount points, sub-roots); no two mounts of
\* the search path ever have the same dirName, whichever way the mounts of
\* two threads interleave.
C6_MountIsIdempotent == []C6_NamesDistinct /\ [][C6_MountAgainIsNoOp]_vars

\* A mount of "B" at mount point "m" returned 1 while "B" stays mounted
\* without a mount point, as the earlier mount left it.
C6_Witness ==
    /\ last.op = "mount"
    /\ last.ret = 1
    /\ last.path = <<"m">>
    /\ \E d \in Range(searchPath) : d.dirName = last.name /\ d.mountPoint = <<>>

-----------------------------------------------------------------------------
(* SpecPath: one thread mounting "A" and "B", setting the write directory,  *)
(* and calling every operation that takes a path, with paths that            *)
(* sanitation accepts and paths that hold "..", ':' or '\'.                  *)

\* No open is attempted while MaxPathOpen handles are open.
MaxPathOpen == 1

PathMountNames == {"A", "B"}
GoodPaths == {<<"x">>, <<"m", "/", "x">>, <<"l">>}
BadPaths == {<<DOT, DOT, SLASH, "x">>, <<"x", COLON>>, <<BACKSLASH>>,
             <<"x", SLASH, DOT, DOT>>}
LookupPaths == GoodPaths \cup BadPaths
EnumAnswers == {ENUM_OK, ENUM_STOP, ENUM_ERROR}

PathMount ==
    \E newDir \in PathMountNames, mountPoint \in MountPointArgs,
       appendToPath \in BOOLEAN :
        PHYSFS_mount("t1", newDir, mountPoint, appendToPath)

PathMountLink == doMountLink("t1")

PathUnmount == \E oldDir \in PathMountNames : PHYSFS_unmount("t1", oldDir)

PathSetWriteDir == \E newDir \in WriteDirNames : PHYSFS_setWriteDir("t1", newDir)

PathOpenRead ==
    \E fname \in LookupPaths :
        Cardinality(OpenHandles) < MaxPathOpen /\ PHYSFS_openRead("t1", fname)

PathOpenWrite ==
    \E fname \in LookupPaths, appending \in BOOLEAN :
        Cardinality(OpenHandles) < MaxPathOpen /\ doOpenWrite("t1", fname, appending)

PathClose ==
    \E f \in OpenHandles, flushed \in BOOLEAN : PHYSFS_close("t1", f.id, flushed)

PathStat == \E fname \in LookupPaths : PHYSFS_stat("t1", fname)

PathExists == \E fname \in LookupPaths : PHYSFS_exists("t1", fname)

PathEnumerate ==
    \E fname \in LookupPaths, answer \in EnumAnswers :
        PHYSFS_enumerate("t1", fname, answer)

PathMkdir == \E fname \in LookupPaths : PHYSFS_mkdir("t1", fname)

PathDelete == \E fname \in LookupPaths : PHYSFS_delete("t1", fname)

PathNext ==
    \/ PathMount
    \/ PathMountLink
    \/ PathUnmount
    \/ PathSetWriteDir
    \/ PathOpenRead
    \/ PathOpenWrite
    \/ PathClose
    \/ PathStat
    \/ PathExists
    \/ PathEnumerate
    \/ PathMkdir
    \/ PathDelete

SpecPath == Init /\ [][PathNext]_vars

\* The operations that look a path up.
PathOps == {"openRead", "stat", "enumerate", "exists", "openWrite",
            "openAppend", "mkdir", "delete"}

\* C3: with a non-empty search path and a write directory set, an operation
\* of PathOps called with a path that holds a ".." segment, a ':' or a '\'
\* returns 0 and leaves BAD_FILENAME as the calling thread's error code.
C3_BadPathsFail ==
    (/\ last.op \in PathOps
     /\ searchPath # <<>>
     /\ writeDir.id # 0
     /\ HasDotDotSegment(last.path) \/ HasIllegalChar(last.path))
        => last.ret = 0 /\ errCode[last.t] = ERR_BAD_FILENAME

\* The last call was an operation of PathOps that reached sanitation, and
\* sanitation rejected its path.
C4_Rejected ==
    /\ last.op \in PathOps
    /\ ~sanitizePlatformIndependentPath(last.path).ok
    /\ IF last.op \in {"openWrite", "openAppend", "mkdir", "delete"}
       THEN writeDir.id # 0
       ELSE last.op = "openRead" => searchPath # <<>>

C4_NothingInvoked == C4_Rejected => last.calls = {} /\ last.cbs = 0

C4_NothingChanged ==
    C4_Rejected' => UNCHANGED <<searchPath, writeDir, openReadList, openWriteList>>

\* C4: when sanitation rejects the path of an operation of PathOps, the
\* operation invokes no backend function and no enumerate callback, and the
\* search path, the write directory and both open lists stay as they were.
C4_RejectedPathTouchesNothing ==
    []C4_NothingInvoked /\ [][C4_NothingChanged]_vars

C4_Witness ==
    /\ C4_Rejected
    /\ last.op = "delete"
    /\ last.path = <<DOT, DOT, SLASH, "x">>
    /\ searchPath # <<>>
    /\ last.ret = 0

-----------------------------------------------------------------------------
(* SpecLookup: one thread mounting "A" and "B" with mount points and        *)
(* sub-roots, setting the symbolic-link flag and the write directory, and    *)
(* looking up paths that sanitation accepts.                                 *)

RootArgs == {NullPath, <<"g">>}

LookMount ==
    \E newDir \in PathMountNames, mountPoint \in MountPointArgs,
       appendToPath \in BOOLEAN :
        PHYSFS_mount("t1", newDir, mountPoint, appendToPath)

LookMountLink == doMountLink("t1")

LookUnmount == \E oldDir \in PathMountNames : PHYSFS_unmount("t1", oldDir)

LookSetRoot ==
    \E archive \in PathMountNames, subdir \in RootArgs :
        PHYSFS_setRoot("t1", archive, subdir)

LookPermitSymbolicLinks ==
    \E allow \in BOOLEAN : PHYSFS_permitSymbolicLinks("t1", allow)

LookSetWriteDir == \E newDir \in WriteDirNames : PHYSFS_setWriteDir("t1", newDir)

LookOpenRead ==
    \E fname \in GoodPaths :
        Cardinality(OpenHandles) < MaxPathOpen /\ PHYSFS_openRead("t1", fname)

LookOpenWrite ==
    \E fname \in GoodPaths, appending \in BOOLEAN :
        Cardinality(OpenHandles) < MaxPathOpen /\ doOpenWrite("t1", fname, appending)

LookClose ==
    \E f \in OpenHandles, flushed \in BOOLEAN : PHYSFS_close("t1", f.id, flushed)

LookStat == \E fname \in GoodPaths : PHYSFS_stat("t1", fname)

LookMkdir == \E fname \in GoodPaths : PHYSFS_mkdir("t1", fname)

LookDelete == \E fname \in GoodPaths : PHYSFS_delete("t1", fname)

LookNext ==
    \/ LookMount
    \/ LookMountLink
    \/ LookUnmount
    \/ LookSetRoot
    \/ LookPermitSymbolicLinks
    \/ LookSetWriteDir
    \/ LookOpenRead
    \/ LookOpenWrite
    \/ LookClose
    \/ LookStat
    \/ LookMkdir
    \/ LookDelete

SpecLookup == Init /\ [][LookNext]_vars

\* The names of the mounts of a search path, head first.
Names(sp) == [k \in 1..Len(sp) |-> sp[k].dirName]

\* The path p lies at or below the mount point of the mount h.
UnderMountPoint(h, p) ==
    LET mp == SubSeq(h.mountPoint, 1, Len(h.mountPoint) - 1)
    IN  \/ h.mountPoint = <<>>
        \/ p = mp
        \/ Len(p) > Len(h.mountPoint) /\ SubSeq(p, 1, Len(h.mountPoint)) = h.mountPoint

\* The path inside the source of h that p names: p without the mount point
\* of h, below the sub-root of h.
Resolve(h, p) ==
    LET rest == IF h.mountPoint = <<>> THEN p
                ELSE SubSeq(p, Len(h.mountPoint) + 1, Len(p))
    IN  IF ~h.hasRoot THEN rest
        ELSE IF rest = <<>> THEN h.root
        ELSE h.root \o <<SLASH>> \o rest

\* The path q and its prefixes that end before a '/'.
Prefixes(q) ==
    {q} \cup { SubSeq(q, 1, k - 1) : k \in { j \in 1..Len(q) : q[j] = SLASH } }

\* q or a prefix of q stats as a symbolic link in the source dirName.
SymlinkOnPath(dirName, q) ==
    \E r \in Prefixes(q) :
        ArcStat(dirName, r).ok /\ ArcStat(dirName, r).filetype = FT_SYMLINK

\* The mount h holds p as a file.
ContainsFile(h, p) ==
    /\ UnderMountPoint(h, p)
    /\ Resolve(h, p) \in DOMAIN Tree(h.dirName)
    /\ Tree(h.dirName)[Resolve(h, p)] = FT_REGULAR

\* A step changes the names of the search path only by putting the name
\* being mounted at the head or at the tail, or by taking out the name that
\* was unmounted.
C5_OrderStep ==
    IF \E t \in Threads : pc[t].at = "link" /\ pc'[t].at = "idle" /\ last'.ret = 1
    THEN LET t == CHOOSE u \in Threads : pc[u].at = "link" /\ pc'[u].at = "idle"
         IN  Names(searchPath') =
                 IF pc[t].appendToPath THEN Append(Names(searchPath), pc[t].fname)
                 ELSE <<pc[t].fname>> \o Names(searchPath)
    ELSE IF last'.op = "unmount" /\ last'.ret = 1
    THEN Names(searchPath') = SelectSeq(Names(searchPath), LAMBDA n : n # last'.name)
    ELSE Names(searchPath') = Names(searchPath)

\* PHYSFS_openRead of a path that is a symbolic link in no mount gives a
\* handle of the first mount that holds the path as a file, and fails when
\* no mount holds it.
C5_FirstContaining ==
    (/\ last.op = "openRead"
     /\ \A k \in 1..Len(searchPath) :
            UnderMountPoint(searchPath[k], last.path)
                => ~SymlinkOnPath(searchPath[k].dirName, Resolve(searchPath[k], last.path)))
        => LET ks == { k \in 1..Len(searchPath) : ContainsFile(searchPath[k], last.path) }
               first == CHOOSE k \in ks : \A j \in ks : k <= j
           IN  IF ks = {} THEN last.ret = 0
               ELSE \E f \in Range(openReadList) :
                        f.id = last.ret /\ f.dirHandle = searchPath[first].id

\* C5: the search path is the list made by putting each mounted source at
\* the head or at the tail and taking unmounted sources out, and
\* PHYSFS_openRead(p) returns a stream of the first mount, head to tail, that
\* holds p as a file, whatever the mount points and sub-roots of the mounts
\* before it, with that mount as the handle's dirHandle.
C5_FirstMountWins == []C5_FirstContaining /\ [][C5_OrderStep]_vars

\* The operations whose dispatch the symbolic-link walk guards.
WalkedOps == {"openRead", "openWrite", "openAppend", "mkdir", "delete", "stat"}

\* The mount h holds p, or a directory on the way to p, as a symbolic link.
LinkIn(h, p) ==
    UnderMountPoint(h, p) /\ SymlinkOnPath(h.dirName, Resolve(h, p))

\* With symbolic links forbidden, no backend function other than the stats
\* of the walk gets a path that is, or passes through, a symbolic link of
\* its source.
C9_NoDispatch ==
    (last.op \in WalkedOps /\ ~allowSymLinks)
        => \A c \in last.calls : ~c.walk => ~SymlinkOnPath(c.dirName, c.path)

\* With symbolic links forbidden, verifyPath of a path on a mount that holds
\* it as a symbolic link fails with SYMLINK_FORBIDDEN.
C9_VerifyPathFails ==
    LET Fails(v) == ~v.ok /\ v.err = ERR_SYMLINK_FORBIDDEN
    IN  \A h \in Range(searchPath) \cup ({writeDir} \ {NoDir}), p \in GoodPaths,
           allowMissing \in BOOLEAN :
            LinkIn(h, p)
                => Fails(verifyPath(h, PathBuffer(longest_root + 1, p),
                                    longest_root + 2, allowMissing, FALSE, ERR_OK))

\* With symbolic links forbidden, PHYSFS_openRead of a path that some mount
\* holds as a symbolic link fails with SYMLINK_FORBIDDEN.
C9_OpenReadFails ==
    (/\ last.op = "openRead"
     /\ ~allowSymLinks
     /\ \E h \in Range(searchPath) : LinkIn(h, last.path))
        => last.ret = 0 /\ errCode[last.t] = ERR_SYMLINK_FORBIDDEN

\* With symbolic links forbidden, PHYSFS_openRead never gives a handle of a
\* mount that holds the path as a symbolic link, and fails with
\* SYMLINK_FORBIDDEN when that mount is the only one.
C9_OpenReadSkipsLink ==
    (last.op = "openRead" /\ ~allowSymLinks)
        => /\ \A h \in Range(searchPath), f \in Range(openReadList) :
                  (LinkIn(h, last.path) /\ last.ret # 0 /\ f.id = last.ret)
                      => f.dirHandle # h.id
           /\ (Len(searchPath) = 1 /\ LinkIn(searchPath[1], last.path))
                  => last.ret = 0 /\ errCode[last.t] = ERR_SYMLINK_FORBIDDEN

\* The claim as stated: with symbolic links forbidden no path is dispatched
\* through a symbolic link, verifyPath fails with SYMLINK_FORBIDDEN, and
\* PHYSFS_openRead of such a path fails with SYMLINK_FORBIDDEN.
C9_AsStated == C9_NoDispatch /\ C9_VerifyPathFails /\ C9_OpenReadFails

\* C9: while symbolic links are not permitted, openRead, openWrite,
\* openAppend, mkdir, delete and stat dispatch no path to a mount in which
\* the path or a prefix of it stats as a symbolic link; verifyPath fails for
\* that mount with SYMLINK_FORBIDDEN; PHYSFS_openRead returns no handle of
\* that mount and, when it is the only mount, fails with SYMLINK_FORBIDDEN.
C9_LinksNeverDispatched ==
    C9_NoDispatch /\ C9_VerifyPathFails /\ C9_OpenReadSkipsLink

C9_Witness ==
    /\ last.op = "openRead"
    /\ ~allowSymLinks
    /\ last.path = <<"l">>
    /\ Len(searchPath) = 1
    /\ searchPath[1].dirName = "A"
    /\ \E c \in last.calls : c.walk /\ c.path = <<"l">>
    /\ last.ret = 0
    /\ errCode[last.t] = ERR_SYMLINK_FORBIDDEN

-----------------------------------------------------------------------------
(* SpecSan: sanitizePlatformIndependentPath applied to every input string  *)
(* over SanAlphabet of length at most MaxSanLen.                           *)

MaxSanLen == 4

SanAlphabet == {"a", DOT, SLASH, COLON, BACKSLASH}

SanInit ==
    /\ sanSrc \in SeqsUpTo(SanAlphabet, MaxSanLen)
    /\ sanOut = [done |-> FALSE, ok |-> FALSE, dst |-> <<>>, err |-> ERR_OK]
    /\ EngInit
    /\ IoIdle

Sanitize ==
    /\ ~sanOut.done
    /\ sanOut' = [done |-> TRUE] @@ sanitizePlatformIndependentPath(sanSrc)
    /\ UNCHANGED <<sanSrc, engVars, ioVars>>

SanNext == Sanitize

SpecSan == SanInit /\ [][SanNext]_vars

\* C2: every path that sanitizePlatformIndependentPath accepts comes out with
\* no "." or ".." segment (the last segment included), no '\' and no ':',
\* no two adjacent '/', and no leading or trailing '/'.
C2_SanitizedIsClean ==
    (sanOut.done /\ sanOut.ok) =>
        /\ ~HasDotSegment(sanOut.dst)
        /\ ~HasIllegalChar(sanOut.dst)
        /\ ~HasDoubleSlash(sanOut.dst)
        /\ ~HasEdgeSlash(sanOut.dst)


-----------------------------------------------------------------------------
(* Streams: PHYSFS_Io over a native file, a memory buffer, an archive entry *)

\* A world is the record [data, ios, files] the stream functions work on:
\* data is the backing bytes, ios the PHYSFS_Io objects by address, files the
\* FileHandle behind each PHYSFS_File.  A call gives back [w, rc, bytes, err].

Min(a, b) == IF a < b THEN a ELSE b

World(d, i, f) == [data |-> d, ios |-> i, files |-> f]

Gave(w, rc, bytes, err) == [w |-> w, rc |-> rc, bytes |-> bytes, err |-> err]

\* What uninitialized buffer memory holds; no payload byte has this value.
Garbage == 0

\* NativeIoInfo, MemoryIoInfo and UNPKfileinfo as one record: pos is the
\* position of a native handle or MemoryIoInfo.pos, parent and refcount are
\* MemoryIoInfo's, io and curPos are UNPKfileinfo's (0 is nullptr).
\* The entry of a stream that is no byte range.
NoEntry == [startPos |-> 0, size |-> 0]

NativeIo(mode) ==
    [kind |-> "native", mode |-> mode, pos |-> 0, parent |-> 0, refcount |-> 0,
     io |-> 0, curPos |-> 0, entry |-> NoEntry]

MemoryIo(parent, refcount) ==
    [kind |-> "memory", mode |-> "r", pos |-> 0, parent |-> parent,
     refcount |-> refcount, io |-> 0, curPos |-> 0, entry |-> NoEntry]

UnpkIo(io, entry) ==
    [kind |-> "unpk", mode |-> "r", pos |-> 0, parent |-> 0, refcount |-> 0,
     io |-> io, curPos |-> 0, entry |-> entry]

\* UNPKentry of the one file of the archive: its bytes are
\* data[startPos + 1 .. startPos + size].
Entry == [startPos |-> 1, size |-> 3]

\* UNPKfileinfo.curPos is a PHYSFS_uint32 and wraps at 2^32; the width is
\* scaled to CurPosBits bits here, so that entries no shorter than the
\* wrap fit the model.
CurPosBits == 2

CurPosWrap == 2^CurPosBits

\* __PHYSFS_platformRead: how many of len bytes a read returns when avail
\* bytes are left and the platform hands over at most chunk (>= 1) at a time.
platformRead(avail, len, chunk) == Min(avail, Min(len, chunk))

\* __PHYSFS_platformWrite: how many of len bytes the platform accepts; accept
\* is the most it takes this time, 0 for an error.
platformWrite(len, accept) == IF accept = 0 THEN -1 ELSE Min(len, accept)

\* __PHYSFS_platformSeek: seeking past the end of the file fails.
platformSeek(size, offset) == offset <= size

\* nativeIo_read, physfs.cpp 110-113.
nativeIo_read(w, id, len, chunk) ==
    LET Got(pos, n) ==
            Gave([w EXCEPT !.ios[id].pos = pos + n], n,
                 SubSeq(w.data, pos + 1, pos + n), ERR_OK)
    IN  Got(w.ios[id].pos, platformRead(Len(w.data) - w.ios[id].pos, len, chunk))

\* nativeIo_write, physfs.cpp 115-119: the accepted bytes land at the
\* handle's position.
nativeIo_write(w, id, buffer, accept) ==
    LET Put(pos, rc) ==
            IF rc <= 0 THEN Gave(w, rc, <<>>, ERR_IO)
            ELSE Gave([w EXCEPT !.data = SubSeq(@, 1, pos) \o SubSeq(buffer, 1, rc)
                                          \o SubSeq(@, pos + rc + 1, Len(@)),
                                !.ios[id].pos = pos + rc],
                      rc, <<>>, ERR_OK)
    IN  Put(w.ios[id].pos, platformWrite(Len(buffer), accept))

\* nativeIo_seek, physfs.cpp 121-124.
nativeIo_seek(w, id, offset) ==
    IF platformSeek(Len(w.data), offset)
    THEN Gave([w EXCEPT !.ios[id].pos = offset], 1, <<>>, ERR_OK)
    ELSE Gave(w, 0, <<>>, ERR_PAST_EOF)

\* memoryIo_read, physfs.cpp 205-219.
memoryIo_read(w, id, len) ==
    LET Got(pos, avail) ==
            IF avail = 0 THEN Gave(w, 0, <<>>, ERR_OK)
            ELSE Gave([w EXCEPT !.ios[id].pos = pos + Min(len, avail)],
                      Min(len, avail),
                      SubSeq(w.data, pos + 1, pos + Min(len, avail)), ERR_OK)
    IN  Got(w.ios[id].pos, Len(w.data) - w.ios[id].pos)

\* memoryIo_write, physfs.cpp 221-223.
memoryIo_write(w) == Gave(w, -1, <<>>, ERR_OPEN_FOR_READING)

\* memoryIo_seek, physfs.cpp 225-230.
memoryIo_seek(w, id, offset) ==
    IF offset > Len(w.data) THEN Gave(w, 0, <<>>, ERR_PAST_EOF)
    ELSE Gave([w EXCEPT !.ios[id].pos = offset], 1, <<>>, ERR_OK)

\* A duplicate that is the stream itself, position and all, in place of a
\* new MemoryIoInfo.
memoryIo_duplicate_Shared(w, id) == Gave(w, id, <<>>, ERR_OK)

memoryIo_duplicate_Chained(w, id) ==
    Gave([w EXCEPT !.ios = [@ EXCEPT ![id].refcount = @ + 1]
                           \o <<MemoryIo(id, 0)>>],
         Len(w.ios) + 1, <<>>, ERR_OK)

\* memoryIo_duplicate, physfs.cpp 242-268: the duplicate of a duplicate is a
\* duplicate of its parent; the new stream is at the next free address.
memoryIo_duplicate(w, id) ==
    LET Dup(parent) ==
            Gave([w EXCEPT !.ios = [@ EXCEPT ![parent].refcount = @ + 1]
                                   \o <<MemoryIo(parent, 0)>>],
                 Len(w.ios) + 1, <<>>, ERR_OK)
    IN  Dup(IF w.ios[id].parent # 0 THEN w.ios[id].parent ELSE id)


\* The call through the PHYSFS_Io function table (io->read, io->write,
\* io->seek, io->tell, io->duplicate), by the kind of the stream.
RECURSIVE io_read(_, _, _, _)

RECURSIVE io_seek(_, _, _)

RECURSIVE io_duplicate(_, _)

\* UNPK_read, archivers/physfs_archiver_unpacked.cpp 40-51: the length
\* asked of the parent (bytesLeft, 43-45), then the read; curPos is a
\* PHYSFS_uint32 (49).
UNPK_readLen(w, id, len) ==
    Min(w.ios[id].entry.size - w.ios[id].curPos, len)

UNPK_read(w, id, len, chunk) ==
    LET Done(r) ==
            IF r.rc > 0
            THEN [r EXCEPT !.w.ios[id].curPos = (@ + r.rc) % CurPosWrap]
            ELSE r
    IN  Done(io_read(w, w.ios[id].io, UNPK_readLen(w, id, len), chunk))

\* UNPK_write, archivers/physfs_archiver_unpacked.cpp 53-55.
UNPK_write(w) == Gave(w, -1, <<>>, ERR_READ_ONLY)

\* UNPK_tell, archivers/physfs_archiver_unpacked.cpp 57-59.
UNPK_tell(w, id) == w.ios[id].curPos

\* UNPK_seek, archivers/physfs_archiver_unpacked.cpp 61-70.  The offset is a
\* PHYSFS_uint64: one computed below 0 is past every size.
UNPK_seek(w, id, offset) ==
    LET Done(r) ==
            IF r.rc # 0
            THEN [r EXCEPT !.w.ios[id].curPos = offset % CurPosWrap]
            ELSE r
    IN  IF offset < 0 \/ offset >= w.ios[id].entry.size
        THEN Gave(w, 0, <<>>, ERR_PAST_EOF)
        ELSE Done(io_seek(w, w.ios[id].io, w.ios[id].entry.startPos + offset))

\* UNPK_duplicate, archivers/physfs_archiver_unpacked.cpp 77-87.
UNPK_duplicate(w, id) ==
    LET Dup(r) ==
            Gave([r.w EXCEPT !.ios = @ \o <<UnpkIo(r.rc, w.ios[id].entry)>>],
                 Len(r.w.ios) + 1, <<>>, ERR_OK)
    IN  Dup(io_duplicate(w, w.ios[id].io))

\* nativeIo_duplicate, physfs.cpp 136-139, and __PHYSFS_createNativeIo,
\* physfs.cpp 167-190: the path is opened once more.
nativeIo_duplicate(w, id) ==
    Gave([w EXCEPT !.ios = @ \o <<NativeIo(w.ios[id].mode)>>],
         Len(w.ios) + 1, <<>>, ERR_OK)

io_read(w, id, len, chunk) ==
    CASE w.ios[id].kind = "native" -> nativeIo_read(w, id, len, chunk)
      [] w.ios[id].kind = "memory" -> memoryIo_read(w, id, len)
      [] w.ios[id].kind = "unpk" -> UNPK_read(w, id, len, chunk)

io_write(w, id, buffer, accept) ==
    CASE w.ios[id].kind = "native" -> nativeIo_write(w, id, buffer, accept)
      [] w.ios[id].kind = "memory" -> memoryIo_write(w)
      [] w.ios[id].kind = "unpk" -> UNPK_write(w)

io_seek(w, id, offset) ==
    CASE w.ios[id].kind = "native" -> nativeIo_seek(w, id, offset)
      [] w.ios[id].kind = "memory" -> memoryIo_seek(w, id, offset)
      [] w.ios[id].kind = "unpk" -> UNPK_seek(w, id, offset)

\* nativeIo_tell, physfs.cpp 126-129; memoryIo_tell, physfs.cpp 232-235.
io_tell(w, id) ==
    IF w.ios[id].kind = "unpk" THEN UNPK_tell(w, id) ELSE w.ios[id].pos

io_duplicate(w, id) ==
    CASE w.ios[id].kind = "native" -> nativeIo_duplicate(w, id)
      [] w.ios[id].kind = "memory" -> memoryIo_duplicate(w, id)
      [] w.ios[id].kind = "unpk" -> UNPK_duplicate(w, id)

\* UNPK_openRead, archivers/physfs_archiver_unpacked.cpp 142-150, once the
\* entry is found: info is the address of UNPKinfo.io.  What the seek of the
\* duplicate returns is not looked at; the other copy of the function,
\* physfs_archiver_unpacked.cpp 155-194, gives up when it fails, which it
\* does not for an entry that lies inside the archive.
UNPK_openReadAt(w, info, entry) ==
    LET Dup(r) ==
            Gave([io_seek(r.w, r.rc, entry.startPos).w
                      EXCEPT !.ios = @ \o <<UnpkIo(r.rc, entry)>>],
                 Len(r.w.ios) + 1, <<>>, ERR_OK)
    IN  Dup(io_duplicate(w, info))

\* UNPK_openRead of the one file of the archive.
UNPK_openReadIo(w, info) == UNPK_openReadAt(w, info, Entry)


-----------------------------------------------------------------------------
(* FileHandle: the buffer of a PHYSFS_File on top of its stream             *)

\* FileHandle after the memset of PHYSFS_openRead, physfs.cpp 2355-2360, and
\* of doOpenWrite, physfs.cpp 2295-2299.  An empty buffer is nullptr.
FileHandle(io, forReading) ==
    [io |-> io, forReading |-> forReading, buffer |-> <<>>, bufsize |-> 0,
     buffill |-> 0, bufpos |-> 0]

\* A PHYSFS_File the application does not hold.
NoFile == [io |-> 0, forReading |-> FALSE, buffer |-> <<>>, bufsize |-> 0,
           buffill |-> 0, bufpos |-> 0]

\* doBufferedRead, physfs.cpp 2430-2463: retval and out are what the loop
\* has copied out so far.
RECURSIVE doBufferedRead(_, _, _, _, _, _)

doBufferedRead(w, h, len, retval, out, chunk) ==
    LET Copy(fh, cpy) ==
            doBufferedRead([w EXCEPT !.files[h].bufpos = @ + cpy], h, len - cpy,
                           retval + cpy,
                           out \o SubSeq(fh.buffer, fh.bufpos + 1, fh.bufpos + cpy),
                           chunk)
        Refill(r) ==
            IF r.rc > 0
            THEN doBufferedRead(
                     [r.w EXCEPT !.files[h].bufpos = 0,
                                 !.files[h].buffill = r.rc,
                                 !.files[h].buffer =
                                     r.bytes \o SubSeq(@, r.rc + 1, Len(@))],
                     h, len, retval, out, chunk)
            ELSE Gave([r.w EXCEPT !.files[h].bufpos = 0, !.files[h].buffill = 0],
                      IF retval = 0 THEN r.rc ELSE retval, out, r.err)
        Loop(fh) ==
            IF fh.buffill - fh.bufpos > 0
            THEN Copy(fh, Min(len, fh.buffill - fh.bufpos))
            ELSE Refill(io_read(w, fh.io, fh.bufsize, chunk))
    IN  IF len = 0 THEN Gave(w, retval, out, ERR_OK) ELSE Loop(w.files[h])

\* PHYSFS_readBytes, physfs.cpp 2474-2490.
PHYSFS_readBytes(w, h, len, chunk) ==
    IF ~w.files[h].forReading THEN Gave(w, -1, <<>>, ERR_OPEN_FOR_WRITING)
    ELSE IF len = 0 THEN Gave(w, 0, <<>>, ERR_OK)
    ELSE IF w.files[h].buffer # <<>> THEN doBufferedRead(w, h, len, 0, <<>>, chunk)
    ELSE io_read(w, w.files[h].io, len, chunk)

\* PHYSFS_flush, physfs.cpp 2631-2645.
PHYSFS_flush(w, h, accept) ==
    LET Dumped(r) ==
            IF r.rc <= 0 THEN Gave(r.w, 0, <<>>, r.err)
            ELSE Gave([r.w EXCEPT !.files[h].bufpos = 0, !.files[h].buffill = 0],
                      1, <<>>, ERR_OK)
        Dump(fh) ==
            IF fh.forReading \/ fh.bufpos = fh.buffill
            THEN Gave(w, 1, <<>>, ERR_OK)
            ELSE Dumped(io_write(w, fh.io,
                                 SubSeq(fh.buffer, fh.bufpos + 1, fh.buffill),
                                 accept))
    IN  Dump(w.files[h])

\* doBufferedWrite, physfs.cpp 2492-2507: accept is for the write of the
\* flush, accept2 for the write of the new bytes.
doBufferedWrite(w, h, buffer, accept, accept2) ==
    LET Flushed(r) ==
            IF r.rc = 0 THEN Gave(r.w, -1, <<>>, r.err)
            ELSE io_write(r.w, r.w.files[h].io, buffer, accept2)
        Fits(fh) ==
            IF fh.buffill + Len(buffer) < fh.bufsize
            THEN Gave([w EXCEPT !.files[h].buffer =
                                    SubSeq(@, 1, fh.buffill) \o buffer
                                    \o SubSeq(@, fh.buffill + Len(buffer) + 1, Len(@)),
                                !.files[h].buffill = @ + Len(buffer)],
                      Len(buffer), <<>>, ERR_OK)
            ELSE Flushed(PHYSFS_flush(w, h, accept))
    IN  Fits(w.files[h])

\* PHYSFS_writeBytes, physfs.cpp 2516-2531.
PHYSFS_writeBytes(w, h, buffer, accept, accept2) ==
    IF w.files[h].forReading THEN Gave(w, -1, <<>>, ERR_OPEN_FOR_READING)
    ELSE IF Len(buffer) = 0 THEN Gave(w, 0, <<>>, ERR_OK)
    ELSE IF w.files[h].buffer # <<>>
    THEN doBufferedWrite(w, h, buffer, accept, accept2)
    ELSE io_write(w, w.files[h].io, buffer, accept2)

\* PHYSFS_tell, physfs.cpp 2556-2563.
PHYSFS_tell(w, h) ==
    IF w.files[h].forReading
    THEN (io_tell(w, w.files[h].io) - w.files[h].buffill) + w.files[h].bufpos
    ELSE io_tell(w, w.files[h].io) + w.files[h].buffill


\* PHYSFS_seek, physfs.cpp 2565-2585.
PHYSFS_seek(w, h, pos, accept) ==
    LET Raw(v) ==
            io_seek([v EXCEPT !.files[h].buffill = 0, !.files[h].bufpos = 0],
                    v.files[h].io, pos)
        Within(v, fh, offset) ==
            IF /\ fh.buffer # <<>>
               /\ fh.forReading
               /\ \/ offset >= 0 /\ offset <= fh.buffill - fh.bufpos
                  \/ offset < 0 /\ -offset <= fh.bufpos
            THEN Gave([v EXCEPT !.files[h].bufpos = @ + offset], 1, <<>>, ERR_OK)
            ELSE Raw(v)
        Flushed(r) ==
            IF r.rc = 0 THEN Gave(r.w, 0, <<>>, r.err)
            ELSE Within(r.w, r.w.files[h], pos - PHYSFS_tell(r.w, h))
    IN  Flushed(PHYSFS_flush(w, h, accept))

\* PHYSFS_setBuffer, physfs.cpp 2592-2629: Realloc keeps what fits of the old
\* buffer and leaves the rest uninitialized.
PHYSFS_setBuffer(w, h, bufsize, accept) ==
    LET Resized(v) ==
            Gave([v EXCEPT !.files[h].buffer =
                               IF bufsize = 0 THEN <<>>
                               ELSE [i \in 1..bufsize |->
                                        IF i <= Len(@) THEN @[i] ELSE Garbage],
                           !.files[h].bufsize = bufsize,
                           !.files[h].buffill = 0,
                           !.files[h].bufpos = 0],
                 1, <<>>, ERR_OK)
        Moved(r) == IF r.rc = 0 THEN Gave(r.w, 0, <<>>, r.err) ELSE Resized(r.w)
        Flushed(v, fh) ==
            IF fh.forReading /\ fh.buffill # fh.bufpos
            THEN Moved(io_seek(v, fh.io,
                               (io_tell(v, fh.io) - fh.buffill) + fh.bufpos))
            ELSE Resized(v)
        Flush(r) ==
            IF r.rc = 0 THEN Gave(r.w, 0, <<>>, r.err)
            ELSE Flushed(r.w, r.w.files[h])
    IN  Flush(PHYSFS_flush(w, h, accept))

\* nativeIo_destroy, physfs.cpp 146-152; memoryIo_destroy, physfs.cpp
\* 274-301; UNPK_destroy, archivers/physfs_archiver_unpacked.cpp 93-98.  A
\* freed PHYSFS_Io has no function table left.
RECURSIVE io_destroy(_, _)

io_destroy(w, id) ==
    LET Freed(v) == [v EXCEPT !.ios[id].kind = "freed"]
        Dropped(v) == [v EXCEPT !.ios[id].refcount = @ - 1]
    IN  CASE w.ios[id].kind = "native" -> Freed(w)
          [] w.ios[id].kind = "unpk" -> Freed(io_destroy(w, w.ios[id].io))
          [] w.ios[id].kind = "memory" /\ w.ios[id].parent # 0 ->
                 io_destroy(Freed(w), w.ios[id].parent)
          [] w.ios[id].kind = "memory" /\ w.ios[id].parent = 0 ->
                 IF w.ios[id].refcount - 1 = 0 THEN Freed(Dropped(w))
                 ELSE Dropped(w)

\* closeHandleInOpenList, physfs.cpp 2377-2402, for a handle that is in the
\* list: flushed is what io->flush returns.
closeHandleInOpenList(w, h, accept, flushed) ==
    LET Destroyed(v) ==
            Gave([io_destroy(v, v.files[h].io) EXCEPT !.files[h] = NoFile],
                 1, <<>>, ERR_OK)
        Flushed(r) ==
            IF r.rc = 0 THEN Gave(r.w, -1, <<>>, r.err)
            ELSE IF ~flushed THEN Gave(r.w, -1, <<>>, ERR_IO)
            ELSE Destroyed(r.w)
    IN  IF ~w.files[h].forReading THEN Flushed(PHYSFS_flush(w, h, accept))
        ELSE Destroyed(w)


-----------------------------------------------------------------------------
(* SpecBuf: one file of the write directory is written through a buffered  *)
(* handle, closed, and read back                                           *)

MaxBytes == 3

BufSizes == {0, 2, 3}

\* What the platform takes of one write: nothing (an error), one byte, all.
Accepts == {0, 1, MaxBytes}

\* What the platform hands over of one read: one byte at a time, or all.
Chunks == {1, MaxBytes}

TheFile == "f"

TheWorld == World(data, ios, files)

\* doOpenWrite, physfs.cpp 2284-2299, with DIR_openWrite and
\* __PHYSFS_createNativeIo, physfs.cpp 167-190: the file is truncated.
NativeOpenWrite(w, h) ==
    World(<<>>, w.ios \o <<NativeIo("w")>>,
          [w.files EXCEPT ![h] = FileHandle(Len(w.ios) + 1, FALSE)])

\* PHYSFS_openRead, physfs.cpp 2341-2361, with DIR_openRead.
NativeOpenRead(w, h) ==
    World(w.data, w.ios \o <<NativeIo("r")>>,
          [w.files EXCEPT ![h] = FileHandle(Len(w.ios) + 1, TRUE)])

\* The payload of the next write: bytes numbered on from those written.
Payload(len) == [i \in 1..len |-> Len(ghost.written) + i]

BufInit ==
    /\ EngInit
    /\ SanIdle
    /\ data = <<>>
    /\ ios = <<>>
    /\ files = [h \in {TheFile} |-> NoFile]
    /\ ghost = [phase |-> "start", written |-> <<>>, readBack |-> <<>>]
    /\ reply = [op |-> "none", rc |-> 0, bytes |-> <<>>]

Stepped(r, op) ==
    /\ data' = r.w.data
    /\ ios' = r.w.ios
    /\ files' = r.w.files
    /\ reply' = [op |-> op, rc |-> r.rc, bytes |-> r.bytes]

BufOpenWrite ==
    /\ ghost.phase = "start"
    /\ Stepped(Gave(NativeOpenWrite(TheWorld, TheFile), 1, <<>>, ERR_OK), "openWrite")
    /\ ghost' = [ghost EXCEPT !.phase = "writing"]
    /\ UNCHANGED <<sanVars, engVars>>

\* The buffer size is chosen on the handle fresh from the open.
BufSetBuffer(k) ==
    /\ reply.op \in {"openWrite", "openRead"}
    /\ Stepped(PHYSFS_setBuffer(TheWorld, TheFile, k, 0), "setBuffer")
    /\ UNCHANGED <<ghost, sanVars, engVars>>

BufWrite(len, accept, accept2) ==
    /\ ghost.phase = "writing"
    /\ Len(ghost.written) + len <= MaxBytes
    /\ LET Wrote(r) ==
               /\ Stepped(r, "writeBytes")
               /\ ghost' = [ghost EXCEPT !.written =
                                IF r.rc > 0 THEN @ \o SubSeq(Payload(len), 1, r.rc)
                                ELSE @]
       IN  Wrote(PHYSFS_writeBytes(TheWorld, TheFile, Payload(len), accept, accept2))
    /\ UNCHANGED <<sanVars, engVars>>

BufFlush(accept) ==
    /\ ghost.phase \in {"writing", "reading"}
    /\ Stepped(PHYSFS_flush(TheWorld, TheFile, accept), "flush")
    /\ UNCHANGED <<ghost, sanVars, engVars>>

BufClose(accept, flushed) ==
    /\ ghost.phase \in {"writing", "reading"}
    /\ LET Closed(r) ==
               /\ Stepped(r, "close")
               /\ ghost' = [ghost EXCEPT !.phase =
                                IF r.rc # 1 THEN @
                                ELSE IF @ = "writing" THEN "closed" ELSE "done"]
       IN  Closed(closeHandleInOpenList(TheWorld, TheFile, accept, flushed))
    /\ UNCHANGED <<sanVars, engVars>>

BufOpenRead ==
    /\ ghost.phase = "closed"
    /\ Stepped(Gave(NativeOpenRead(TheWorld, TheFile), 1, <<>>, ERR_OK), "openRead")
    /\ ghost' = [ghost EXCEPT !.phase = "reading"]
    /\ UNCHANGED <<sanVars, engVars>>

BufRead(len, chunk) ==
    /\ ghost.phase = "reading"
    /\ LET Read(r) ==
               /\ Stepped(r, "readBytes")
               /\ ghost' = [ghost EXCEPT !.readBack = @ \o r.bytes]
       IN  Read(PHYSFS_readBytes(TheWorld, TheFile, len, chunk))
    /\ UNCHANGED <<sanVars, engVars>>

BufNext ==
    \/ BufOpenWrite
    \/ \E k \in BufSizes : BufSetBuffer(k)
    \/ \E len \in 1..2, accept \in Accepts, accept2 \in Accepts :
           BufWrite(len, accept, accept2)
    \/ \E accept \in Accepts : BufFlush(accept)
    \/ \E accept \in Accepts, flushed \in BOOLEAN : BufClose(accept, flushed)
    \/ BufOpenRead
    \/ \E len \in 1..MaxBytes, chunk \in Chunks : BufRead(len, chunk)

SpecBuf == BufInit /\ [][BufNext]_vars

IsPrefixOf(s, t) == Len(s) <= Len(t) /\ SubSeq(t, 1, Len(s)) = s

\* C7: once the write handle is closed with success, what is read back from
\* the file is a prefix of the concatenation of the written payloads, and is
\* all of it when a read reports the end of the file.
C7_RoundTrip ==
    ghost.phase = "reading" =>
        /\ IsPrefixOf(ghost.readBack, ghost.written)
        /\ reply.op = "readBytes" /\ reply.rc = 0 => ghost.readBack = ghost.written


-----------------------------------------------------------------------------
(* SpecCmp: the same calls on a buffered and on an unbuffered read handle  *)
(* of one archive entry                                                    *)

\* The archive, mounted from memory (PHYSFS_mountMemory, physfs.cpp
\* 1545-1566): its image, and the address of UNPKinfo.io.
ArchiveBytes == <<9, 1, 2, 3, 8>>

ArchiveIo == 1

\* PHYSFS_openRead, physfs.cpp 2341-2361, on the entry of the archive.
ArchiveOpenRead(w, h, info) ==
    LET Opened(r) ==
            Gave([r.w EXCEPT !.files[h] = FileHandle(r.rc, TRUE)], 1, <<>>, ERR_OK)
    IN  Opened(UNPK_openReadIo(w, info))

Buffered == "buffered"

Plain == "plain"

CmpInit ==
    /\ EngInit
    /\ SanIdle
    /\ data = ArchiveBytes
    /\ ios = <<MemoryIo(0, 1)>>
    /\ files = [h \in {Buffered, Plain} |-> NoFile]
    /\ ghost = <<>>
    /\ reply = [op |-> "none", arg |-> 0, rc |-> 0, bytes |-> <<>>,
                plainRc |-> 0, plainBytes |-> <<>>]

\* What the call gave on the buffered handle (r) and on the plain one (p).
Compared(p, op, arg, r) ==
    /\ data' = p.w.data
    /\ ios' = p.w.ios
    /\ files' = p.w.files
    /\ reply' = [op |-> op, arg |-> arg, rc |-> r.rc, bytes |-> r.bytes,
                 plainRc |-> p.rc, plainBytes |-> p.bytes]

CmpOpen ==
    /\ files[Buffered] = NoFile
    /\ LET Both(r) ==
               Compared(ArchiveOpenRead(r.w, Plain, ArchiveIo), "openRead", 0, r)
       IN  Both(ArchiveOpenRead(TheWorld, Buffered, ArchiveIo))
    /\ UNCHANGED <<ghost, sanVars, engVars>>

CmpSetBuffer(k) ==
    /\ files[Buffered] # NoFile
    /\ LET Set(r) == Compared(Gave(r.w, r.rc, <<>>, ERR_OK), "setBuffer", k, r)
       IN  Set(PHYSFS_setBuffer(TheWorld, Buffered, k, 0))
    /\ UNCHANGED <<ghost, sanVars, engVars>>

CmpRead(len) ==
    /\ files[Buffered] # NoFile
    /\ LET Both(r) ==
               Compared(PHYSFS_readBytes(r.w, Plain, len, MaxBytes), "readBytes", len, r)
       IN  Both(PHYSFS_readBytes(TheWorld, Buffered, len, MaxBytes))
    /\ UNCHANGED <<ghost, sanVars, engVars>>

CmpSeek(pos) ==
    /\ files[Buffered] # NoFile
    /\ LET Both(r) == Compared(PHYSFS_seek(r.w, Plain, pos, 0), "seek", pos, r)
       IN  Both(PHYSFS_seek(TheWorld, Buffered, pos, 0))
    /\ UNCHANGED <<ghost, sanVars, engVars>>

CmpTell ==
    /\ files[Buffered] # NoFile
    /\ Compared(Gave(TheWorld, PHYSFS_tell(TheWorld, Plain), <<>>, ERR_OK), "tell", 0,
                Gave(TheWorld, PHYSFS_tell(TheWorld, Buffered), <<>>, ERR_OK))
    /\ UNCHANGED <<ghost, sanVars, engVars>>

CmpNext ==
    \/ CmpOpen
    \/ \E k \in BufSizes : CmpSetBuffer(k)
    \/ \E len \in 1..MaxBytes : CmpRead(len)
    \/ \E pos \in 0..(Entry.size + 1) : CmpSeek(pos)
    \/ CmpTell

SpecCmp == CmpInit /\ [][CmpNext]_vars

\* C8: a read, a seek and a tell return on the buffered handle what they
\* return on the unbuffered handle that has seen the same reads and seeks,
\* and a read delivers the same bytes.
C8_BufferedAsPlain ==
    reply.op \in {"readBytes", "seek", "tell"} =>
        reply.rc = reply.plainRc /\ reply.bytes = reply.plainBytes


-----------------------------------------------------------------------------
(* SpecUnpk: two read handles on the same archive entry, used by two       *)
(* threads in any order                                                    *)

Handles == {"h1", "h2"}

UnpkBufSizes == {0, 2}

\* The world in which only handle h was ever opened.
Alone(h) == World(ghost[h].data, ghost[h].ios, ghost[h].files)

\* The archive is mounted from memory or from a native file (PHYSFS_mount,
\* physfs.cpp 1590-1595).
ArchiveIos == {MemoryIo(0, 1), NativeIo("r")}

UnpkInit ==
    /\ EngInit
    /\ SanIdle
    /\ data = ArchiveBytes
    /\ ios \in {<<io>> : io \in ArchiveIos}
    /\ files = [h \in Handles |-> NoFile]
    /\ ghost = [h \in Handles |->
                   World(ArchiveBytes, ios, [g \in Handles |-> NoFile])]
    /\ reply = [op |-> "none", t |-> NoThread, h |-> "", rc |-> 0, bytes |-> <<>>,
                aloneRc |-> 0, aloneBytes |-> <<>>]

\* What the call of thread t on handle h gave (r), and what it gives where
\* the other handle does not exist (a).
Answered(r, a, op, t, h) ==
    /\ data' = r.w.data
    /\ ios' = r.w.ios
    /\ files' = r.w.files
    /\ ghost' = [ghost EXCEPT ![h] = a.w]
    /\ reply' = [op |-> op, t |-> t, h |-> h, rc |-> r.rc, bytes |-> r.bytes,
                 aloneRc |-> a.rc, aloneBytes |-> a.bytes]

UnpkOpenRead(t, h) ==
    /\ files[h] = NoFile
    /\ Answered(ArchiveOpenRead(TheWorld, h, ArchiveIo),
                ArchiveOpenRead(Alone(h), h, ArchiveIo), "openRead", t, h)
    /\ UNCHANGED <<sanVars, engVars>>

UnpkSetBuffer(t, h, k) ==
    /\ files[h] # NoFile
    /\ Answered(PHYSFS_setBuffer(TheWorld, h, k, 0),
                PHYSFS_setBuffer(Alone(h), h, k, 0), "setBuffer", t, h)
    /\ UNCHANGED <<sanVars, engVars>>

UnpkRead(t, h, len) ==
    /\ files[h] # NoFile
    /\ Answered(PHYSFS_readBytes(TheWorld, h, len, MaxBytes),
                PHYSFS_readBytes(Alone(h), h, len, MaxBytes), "readBytes", t, h)
    /\ UNCHANGED <<sanVars, engVars>>

UnpkSeek(t, h, pos) ==
    /\ files[h] # NoFile
    /\ Answered(PHYSFS_seek(TheWorld, h, pos, 0),
                PHYSFS_seek(Alone(h), h, pos, 0), "seek", t, h)
    /\ UNCHANGED <<sanVars, engVars>>

UnpkNext ==
    \E t \in Threads, h \in Handles :
        \/ UnpkOpenRead(t, h)
        \/ \E k \in UnpkBufSizes : UnpkSetBuffer(t, h, k)
        \/ \E len \in 1..MaxBytes : UnpkRead(t, h, len)
        \/ \E pos \in 0..(Entry.size + 1) : UnpkSeek(t, h, pos)

SpecUnpk == UnpkInit /\ [][UnpkNext]_vars

\* The PHYSFS_Io under the byte-range stream of an open handle.
ParentIo(h) == ios[files[h].io].io

C10_OwnParents ==
    \A h \in Handles : files[h] # NoFile =>
        /\ ParentIo(h) # ArchiveIo
        /\ \A g \in Handles \ {h} : files[g] # NoFile => ParentIo(g) # ParentIo(h)

C10_AsIfAlone ==
    /\ reply.op = "openRead" => reply.rc = 1
    /\ reply.op \in {"openRead", "setBuffer", "readBytes", "seek"} =>
           reply.rc = reply.aloneRc /\ reply.bytes = reply.aloneBytes
    /\ \A h \in Handles : files[h] # NoFile =>
           PHYSFS_tell(TheWorld, h) = PHYSFS_tell(Alone(h), h)

\* C10: both opens of the entry succeed, the two handles have different
\* duplicates of the archive's stream under them, and every call on a handle
\* returns the value and the bytes, and leaves the handle at the position,
\* that it would where the other handle does not exist.
C10_IndependentCursors == C10_OwnParents /\ C10_AsIfAlone

\* Both handles are open at different positions and the read of one of them
\* has just delivered bytes from its own position.
C10_Witness ==
    /\ files["h1"] # NoFile
    /\ files["h2"] # NoFile
    /\ PHYSFS_tell(TheWorld, "h1") = 2
    /\ PHYSFS_tell(TheWorld, "h2") = 1
    /\ reply.op = "readBytes"
    /\ reply.h = "h2"
    /\ reply.t = "t2"
    /\ reply.bytes = <<1>>


(***************************************************************************)
(* The discipline of stateLock.  Every public operation is written out as  *)
(* the sequence of its steps that matter to the lock, one sequence per     *)
(* return path of the source: taking stateLock, releasing it, reading or   *)
(* writing one of searchPath, writeDir, openReadList and openWriteList,    *)
(* and calling a function that has steps of its own.  The four variables   *)
(* hold the names of their elements only: "D" a mounted directory, "H" an  *)
(* archive mounted from the PHYSFS_File "f" (PHYSFS_mountHandle), "f" a    *)
(* file of D open for reading,                                             *)
(* "e" an entry of H open for reading, "d" the FileHandle that             *)
(* handleIo_duplicate makes for the stream of "e", "w" a file open for     *)
(* writing, "W" the write dir (writeDir is <<>> for nullptr).  pc[t] is    *)
(* the call stack of thread t, a sequence of frames [op, path, at]: path 0 *)
(* until the frame has chosen its return path, at the next step.           *)
(* ghost.depth counts the holder's acquisitions of stateLock and           *)
(* ghost.initialized is the flag of that name.                             *)
(***************************************************************************)
Grab == [i |-> "grab", x |-> "stateLock", put |-> "", del |-> ""]

Release == [i |-> "release", x |-> "stateLock", put |-> "", del |-> ""]

Rd(x) == [i |-> "read", x |-> x, put |-> "", del |-> ""]

\* A write of x that links put (when not "") and unlinks del ("*": all).
Wr(x, put, del) == [i |-> "write", x |-> x, put |-> put, del |-> del]

Enter(f) == [i |-> "call", x |-> f, put |-> "", del |-> ""]

\* One return path: taken when every name of has is linked and none of no.
Path(has, no, steps) == [has |-> has, no |-> no, steps |-> steps]

\* doMount: the scan for the name, then createDirHandle and the link.
doMountSteps(a, file) ==
    << Path({a}, {}, <<Grab, Rd("searchPath"), Release>>),
       Path({}, {a}, <<Grab, Rd("searchPath"), Release>>),
       Path(file, {a}, <<Grab, Rd("searchPath"), Wr("searchPath", a, ""), Release>>) >>

\* PHYSFS_unmount of a, whose open files are kid and whose closeArchive
\* makes the calls of closing.
unmountSteps(a, kid, closing) ==
    << Path({}, {a}, <<Grab, Rd("searchPath"), Release>>),
       Path({a, kid}, {}, <<Grab, Rd("searchPath"), Rd("openReadList"), Release>>),
       Path({a}, {kid}, <<Grab, Rd("searchPath"), Rd("openReadList")>> \o closing
                         \o <<Wr("searchPath", "", a), Release>>) >>

\* handleIo_destroy of the stream over the FileHandle x: PHYSFS_close(x).
handleIo_destroySteps(x) ==
    << Path({}, {}, <<Enter("PHYSFS_close(" \o x \o ")")>>) >>

\* handleIo_duplicate: the new FileHandle is linked under stateLock.
handleIo_duplicateSteps ==
    << Path({}, {}, <<Grab, Wr("openReadList", "d", ""), Release>>) >>

\* PHYSFS_close of the read handle x, whose io->destroy makes the calls of
\* destroying, and of the write handle "w" (the second path of which is a
\* failed flush).
closeSteps(x, destroying) ==
    IF x = "w"
    THEN << Path({x}, {}, <<Grab, Rd("openReadList"), Rd("openWriteList"),
                            Wr("openWriteList", "", x), Release>>),
            Path({x}, {}, <<Grab, Rd("openReadList"), Rd("openWriteList"), Release>>),
            Path({}, {x}, <<Grab, Rd("openReadList"), Rd("openWriteList"), Release>>) >>
    ELSE << Path({x}, {}, <<Grab, Rd("openReadList")>> \o destroying
                          \o <<Wr("openReadList", "", x), Release>>),
            Path({}, {x}, <<Grab, Rd("openReadList"), Rd("openWriteList"), Release>>) >>

\* PHYSFS_openRead of x in the mount a, whose openRead makes the calls of
\* opening.
openReadSteps(a, x, opening) ==
    << Path({}, {}, <<Grab, Rd("searchPath"), Release>>),
       Path({a}, {x}, <<Grab, Rd("searchPath")>> \o opening
                       \o <<Wr("openReadList", x, ""), Release>>) >>

doOpenWriteSteps ==
    << Path({}, {}, <<Grab, Rd("writeDir"), Release>>),
       Path({"W"}, {"w"}, <<Grab, Rd("writeDir"), Wr("openWriteList", "w", ""), Release>>) >>

\* PHYSFS_setWriteDir(newDir): new is "W", or "" for nullptr.
setWriteDirSteps(new) ==
    << Path({}, {"W"}, <<Grab, Rd("writeDir")>>
                       \o (IF new = "" THEN <<>> ELSE <<Wr("writeDir", new, "")>>)
                       \o <<Release>>),
       Path({"W", "w"}, {}, <<Grab, Rd("writeDir"), Rd("openWriteList"), Release>>),
       Path({"W"}, {"w"}, <<Grab, Rd("writeDir"), Rd("openWriteList"),
                            Wr("writeDir", new, "W"), Release>>) >>

setRootSteps ==
    << Path({}, {}, <<Grab, Rd("searchPath"), Release>>),
       Path({"D"}, {}, <<Grab, Rd("searchPath"), Wr("searchPath", "", ""), Release>>) >>

\* PHYSFS_getMountPoint, PHYSFS_getSearchPath, PHYSFS_stat, PHYSFS_exists
\* (getRealDirHandle) and PHYSFS_enumerate with a callback of the
\* application that calls nothing.
lookupSteps == << Path({}, {}, <<Grab, Rd("searchPath"), Release>>) >>

\* PHYSFS_mkdir and PHYSFS_delete.
writeDirSteps ==
    << Path({}, {"W"}, <<Grab, Rd("writeDir"), Release>>),
       Path({"W"}, {}, <<Grab, Rd("writeDir"), Rd("writeDir"), Release>>) >>

registerArchiverSteps == << Path({}, {}, <<Grab, Release>>) >>

deregisterArchiverSteps ==
    << Path({}, {}, <<Grab, Rd("searchPath"), Rd("writeDir"), Release>>) >>

\* PHYSFS_enumerate("/", setSaneCfgEnumCallback, &data): the callback runs
\* for an entry of a mount, inside the section.
enumerateSaneSteps ==
    << Path({}, {}, <<Grab, Rd("searchPath"), Release>>),
       Path({"D"}, {}, <<Grab, Rd("searchPath"), Enter("setSaneCfgEnumCallback"),
                         Release>>) >>

\* setSaneCfgEnumCallback: for a name with the archive extension,
\* PHYSFS_getRealDir and PHYSFS_mount (of a name that is mounted already,
\* in this model).
setSaneCfgEnumCallbackSteps ==
    << Path({}, {}, <<>>),
       Path({}, {}, <<Enter("PHYSFS_getRealDir"), Enter("PHYSFS_mount(D)")>>) >>

\* PHYSFS_setSaneConfig: the write dir, then the mounts and the enumeration
\* when the write dir was set.
setSaneConfigSteps ==
    << Path({}, {}, <<Enter("PHYSFS_setWriteDir(W)"), Enter("setSaneConfig:mounts")>>) >>

setSaneConfigMounts ==
    << Path({}, {"W"}, <<>>),
       Path({"W"}, {}, <<Enter("PHYSFS_mount(D)"), Enter("PHYSFS_mount(D)"),
                         Enter("PHYSFS_enumerate(setSaneCfgEnumCallback)")>>) >>

\* PHYSFS_deinit, doDeinit: closeFileHandleList(&openWriteList), which
\* leaves the list as it is when a flush fails, and
\* PHYSFS_setWriteDir(nullptr); stateLock is taken by the latter only.
doDeinitSteps ==
    << Path({}, {}, <<Rd("openWriteList"), Wr("openWriteList", "", "*"),
                      Enter("PHYSFS_setWriteDir(NULL)"), Enter("doDeinit:free")>>),
       Path({"w"}, {}, <<Rd("openWriteList"), Wr("openWriteList", "", ""),
                         Enter("PHYSFS_setWriteDir(NULL)"), Enter("doDeinit:free")>>) >>

\* The rest of doDeinit when PHYSFS_setWriteDir(nullptr) returned 1:
\* freeSearchPath (closeFileHandleList(&openReadList), whose io->destroy
\* of the stream of "e" is handleIo_destroy, and freeDirHandle, whose
\* closeArchive of "H" is handleIo_destroy too), freeArchivers
\* (doDeregisterArchiver), initialized = 0.
doDeinitFree ==
    LET Rest == <<Rd("searchPath"), Rd("writeDir"), Wr("initialized", "", "")>>
    IN  << Path({"W"}, {}, <<>>),
           Path({}, {"W", "H"},
                <<Rd("openReadList"), Wr("openReadList", "", "*"),
                  Rd("searchPath"), Rd("openReadList"),
                  Wr("searchPath", "", "*")>> \o Rest),
           Path({"H"}, {"W", "e"},
                <<Rd("openReadList"), Wr("openReadList", "", "*"),
                  Rd("searchPath"), Rd("openReadList"),
                  Enter("handleIo_destroy(f)"),
                  Wr("searchPath", "", "*")>> \o Rest),
           Path({"H", "e"}, {"W"},
                <<Rd("openReadList"), Enter("handleIo_destroy(d)"),
                  Wr("openReadList", "", "*"),
                  Rd("searchPath"), Rd("openReadList"),
                  Enter("handleIo_destroy(f)"),
                  Wr("searchPath", "", "*")>> \o Rest) >>

\* The return paths of the function named op.
LockCode(op) ==
    CASE op = "PHYSFS_mount(D)" -> doMountSteps("D", {})
      [] op = "PHYSFS_mountHandle(f)" -> doMountSteps("H", {"f"})
      [] op = "PHYSFS_unmount(D)" -> unmountSteps("D", "f", <<>>)
      [] op = "PHYSFS_unmount(H)" ->
             unmountSteps("H", "e", <<Enter("handleIo_destroy(f)")>>)
      [] op = "handleIo_destroy(f)" -> handleIo_destroySteps("f")
      [] op = "handleIo_destroy(d)" -> handleIo_destroySteps("d")
      [] op = "handleIo_duplicate" -> handleIo_duplicateSteps
      [] op = "PHYSFS_close(f)" -> closeSteps("f", <<>>)
      [] op = "PHYSFS_close(d)" -> closeSteps("d", <<>>)
      [] op = "PHYSFS_close(e)" -> closeSteps("e", <<Enter("handleIo_destroy(d)")>>)
      [] op = "PHYSFS_close(w)" -> closeSteps("w", <<>>)
      [] op = "PHYSFS_openRead(f)" -> openReadSteps("D", "f", <<>>)
      [] op = "PHYSFS_openRead(e)" ->
             openReadSteps("H", "e", <<Enter("handleIo_duplicate")>>)
      [] op = "PHYSFS_openWrite" -> doOpenWriteSteps
      [] op = "PHYSFS_setWriteDir(W)" -> setWriteDirSteps("W")
      [] op = "PHYSFS_setWriteDir(NULL)" -> setWriteDirSteps("")
      [] op = "PHYSFS_setRoot" -> setRootSteps
      [] op \in {"PHYSFS_getMountPoint", "PHYSFS_getSearchPath", "PHYSFS_stat",
                 "PHYSFS_exists", "PHYSFS_getRealDir", "PHYSFS_enumerate"} ->
             lookupSteps
      [] op \in {"PHYSFS_mkdir", "PHYSFS_delete"} -> writeDirSteps
      [] op = "PHYSFS_registerArchiver" -> registerArchiverSteps
      [] op = "PHYSFS_deregisterArchiver" -> deregisterArchiverSteps
      [] op = "PHYSFS_enumerate(setSaneCfgEnumCallback)" -> enumerateSaneSteps
      [] op = "setSaneCfgEnumCallback" -> setSaneCfgEnumCallbackSteps
      [] op = "PHYSFS_setSaneConfig" -> setSaneConfigSteps
      [] op = "setSaneConfig:mounts" -> setSaneConfigMounts
      [] op = "PHYSFS_deinit" -> doDeinitSteps
      [] op = "doDeinit:free" -> doDeinitFree

\* The operations an application calls.
PublicOps ==
    {"PHYSFS_mount(D)", "PHYSFS_mountHandle(f)", "PHYSFS_unmount(D)",
     "PHYSFS_unmount(H)", "PHYSFS_close(f)",
     "PHYSFS_close(e)", "PHYSFS_close(w)", "PHYSFS_openRead(f)",
     "PHYSFS_openRead(e)", "PHYSFS_openWrite", "PHYSFS_setWriteDir(W)",
     "PHYSFS_setWriteDir(NULL)", "PHYSFS_setRoot", "PHYSFS_getMountPoint",
     "PHYSFS_getSearchPath", "PHYSFS_stat", "PHYSFS_exists",
     "PHYSFS_getRealDir", "PHYSFS_enumerate", "PHYSFS_mkdir", "PHYSFS_delete",
     "PHYSFS_registerArchiver", "PHYSFS_deregisterArchiver",
     "PHYSFS_setSaneConfig", "PHYSFS_deinit"}

\* The names linked in the four variables.
Linked ==
    Range(searchPath) \cup Range(writeDir) \cup Range(openReadList)
    \cup Range(openWriteList)

\* The file the application passes must be one it holds: it mounts "f"
\* while "f" is open and closes "f" only while no archive owns it.
MayCall(op) ==
    /\ op = "PHYSFS_mountHandle(f)" => "f" \in Linked /\ "H" \notin Linked
    /\ op = "PHYSFS_close(f)" => "H" \notin Linked

\* The frame on top of the stack of thread t, and the step it is at.
TopFrame(t) == pc[t][Len(pc[t])]

NoStep == [i |-> "none", x |-> "", put |-> "", del |-> ""]

NextStep(t) ==
    IF pc[t] = <<>> \/ TopFrame(t).path = 0 THEN NoStep
    ELSE LockCode(TopFrame(t).op)[TopFrame(t).path].steps[TopFrame(t).at]

\* The stack after its top frame has taken one step: frames with no step
\* left have returned.
RECURSIVE Returning(_)
Returning(stack) ==
    IF stack = <<>> THEN stack
    ELSE LET top == stack[Len(stack)]
         IN  IF top.path > 0 /\ top.at > Len(LockCode(top.op)[top.path].steps)
             THEN Returning(SubSeq(stack, 1, Len(stack) - 1))
             ELSE stack

Advanced(stack) ==
    [stack EXCEPT ![Len(stack)].at = stack[Len(stack)].at + 1]

\* __PHYSFS_platformGrabMutex(stateLock): the holder may take it again.
MayGrab(t) == stateLock = NoThread \/ stateLock = t

\* The list x after a write that links put and unlinks del; the names are
\* kept in one fixed order, the order of a list playing no part here.
Written(list, put, del) ==
    SelectSeq(<<"D", "H", "f", "e", "d", "w", "W">>,
              LAMBDA z : \/ z = put
                         \/ z \in Range(list) /\ del # "*" /\ z # del)

LockInit ==
    /\ searchPath = <<>>
    /\ writeDir = <<>>
    /\ openReadList = <<>>
    /\ openWriteList = <<>>
    /\ longest_root = 0
    /\ allowSymLinks = FALSE
    /\ stateLock = NoThread
    /\ pc = [t \in Threads |-> <<>>]
    /\ errCode = [t \in Threads |-> ERR_OK]
    /\ last = NoCall
    /\ SanIdle
    /\ data = <<>> /\ ios = <<>> /\ files = <<>> /\ reply = <<>>
    /\ ghost = [depth |-> 0, initialized |-> TRUE]

LockKeep == <<longest_root, allowSymLinks, errCode, last, sanVars, data, ios, files, reply>>

\* Thread t calls a public operation.
LockCall(t, op) ==
    /\ pc[t] = <<>>
    /\ ghost.initialized
    /\ MayCall(op)
    /\ pc' = [pc EXCEPT ![t] = <<[op |-> op, path |-> 0, at |-> 1]>>]
    /\ UNCHANGED <<searchPath, writeDir, openReadList, openWriteList, stateLock,
                   ghost, LockKeep>>

\* The function on top of the stack of t takes the return path k: one that
\* begins with stateLock takes it in the same step, since what decides the
\* path is read inside the section.
LockChoose(t, k) ==
    /\ pc[t] # <<>>
    /\ TopFrame(t).path = 0
    /\ k \in DOMAIN LockCode(TopFrame(t).op)
    /\ LET p == LockCode(TopFrame(t).op)[k]
           locks == p.steps # <<>> /\ p.steps[1] = Grab
       IN  /\ p.has \subseteq Linked
           /\ p.no \cap Linked = {}
           /\ locks => MayGrab(t)
           /\ stateLock' = IF locks THEN t ELSE stateLock
           /\ ghost' = IF locks THEN [ghost EXCEPT !.depth = @ + 1] ELSE ghost
           /\ pc' = [pc EXCEPT ![t] =
                        Returning([pc[t] EXCEPT ![Len(pc[t])].path = k,
                                                ![Len(pc[t])].at =
                                                    IF locks THEN 2 ELSE 1])]
    /\ UNCHANGED <<searchPath, writeDir, openReadList, openWriteList, LockKeep>>

\* __PHYSFS_platformReleaseMutex(stateLock).
LockRelease(t) ==
    /\ NextStep(t).i = "release"
    /\ stateLock = t
    /\ ghost' = [ghost EXCEPT !.depth = @ - 1]
    /\ stateLock' = IF ghost.depth = 1 THEN NoThread ELSE t
    /\ pc' = [pc EXCEPT ![t] = Returning(Advanced(pc[t]))]
    /\ UNCHANGED <<searchPath, writeDir, openReadList, openWriteList, LockKeep>>

\* A read of one of the four variables.
LockRead(t) ==
    /\ NextStep(t).i = "read"
    /\ pc' = [pc EXCEPT ![t] = Returning(Advanced(pc[t]))]
    /\ UNCHANGED <<searchPath, writeDir, openReadList, openWriteList, stateLock,
                   ghost, LockKeep>>

\* A write of one of the four variables, or of initialized.
LockWrite(t) ==
    LET s == NextStep(t)
    IN  /\ s.i = "write"
        /\ searchPath' = IF s.x = "searchPath"
                         THEN Written(searchPath, s.put, s.del) ELSE searchPath
        /\ writeDir' = IF s.x = "writeDir"
                       THEN Written(writeDir, s.put, s.del) ELSE writeDir
        /\ openReadList' = IF s.x = "openReadList"
                           THEN Written(openReadList, s.put, s.del) ELSE openReadList
        /\ openWriteList' = IF s.x = "openWriteList"
                            THEN Written(openWriteList, s.put, s.del)
                            ELSE openWriteList
        /\ ghost' = IF s.x = "initialized"
                    THEN [ghost EXCEPT !.initialized = FALSE] ELSE ghost
        /\ pc' = [pc EXCEPT ![t] = Returning(Advanced(pc[t]))]
        /\ UNCHANGED <<stateLock, LockKeep>>

\* A call of a function with steps of its own.
LockEnter(t) ==
    /\ NextStep(t).i = "call"
    /\ pc' = [pc EXCEPT ![t] =
                 Append(Advanced(pc[t]),
                        [op |-> NextStep(t).x, path |-> 0, at |-> 1])]
    /\ UNCHANGED <<searchPath, writeDir, openReadList, openWriteList, stateLock,
                   ghost, LockKeep>>

LockNext ==
    \E t \in Threads :
        \/ \E op \in PublicOps : LockCall(t, op)
        \/ \E k \in 1..4 : LockChoose(t, k)
        \/ LockRelease(t)
        \/ LockRead(t)
        \/ LockWrite(t)
        \/ LockEnter(t)

SpecLock == LockInit /\ [][LockNext]_vars



\* Thread t is about to read or write one of the four variables.
AtAccess(t) ==
    NextStep(t).i \in {"read", "write"} /\ NextStep(t).x # "initialized"

\* C11: every read or write of searchPath, writeDir, openReadList and
\* openWriteList by a public operation is made by the thread that holds
\* stateLock, an operation that has returned holds stateLock no longer, and
\* no two threads are at such a read or write at the same time.
C11_AccessUnderLock ==
    /\ \A t \in Threads : AtAccess(t) => stateLock = t
    /\ \A t \in Threads : pc[t] = <<>> => stateLock # t
    /\ \A t, u \in Threads : t # u => ~(AtAccess(t) /\ AtAccess(u))

\* The same for every operation but PHYSFS_deinit.
C11_ButDeinit ==
    /\ \A t \in Threads :
           AtAccess(t) /\ pc[t][1].op # "PHYSFS_deinit" => stateLock = t
    /\ \A t \in Threads : pc[t] = <<>> => stateLock # t

\* The function on top of the stack of t begins by taking stateLock.
AtGrab(t) ==
    /\ pc[t] # <<>>
    /\ TopFrame(t).path = 0
    /\ LockCode(TopFrame(t).op)[1].steps # <<>>
    /\ LockCode(TopFrame(t).op)[1].steps[1] = Grab

\* C12: no thread takes stateLock while it holds it: nothing called inside
\* a section of stateLock (handleIo_duplicate, handleIo_destroy, the
\* enumeration callback of PHYSFS_setSaneConfig) calls a public operation
\* or takes stateLock itself.
C12_NoReentry ==
    \A t \in Threads : AtGrab(t) => stateLock # t



(***************************************************************************)
(* Memory streams on their own.  ios[1] is the stream of                   *)
(* __PHYSFS_createMemoryIo over the buffer data, with a destructor; the    *)
(* others are its duplicates.  ghost.held is the set of streams the        *)
(* application has not passed to destroy yet, ghost.pos the position each  *)
(* stream was left at by its own reads and seeks, ghost.destruct[id]       *)
(* whether stream id has a destructor (info->destruct), ghost.destructs the *)
(* number of calls of the destructor and ghost.overlap whether a destroy   *)
(* began while another thread was inside one.  memoryIo_destroy is taken   *)
(* in its steps: the free of a duplicate, the atomic decrement of the      *)
(* refcount of the original, and the free of the original with the call    *)
(* of the destructor; pc[t] is the step thread t is at.  The destructor    *)
(* frees the buffer, what it held is Garbage afterwards.                   *)
(***************************************************************************)
MaxStreams == 3

MemBytes == <<1, 2, 3>>

MemIdle == [at |-> "idle", io |-> 0, of |-> 0]

\* __PHYSFS_createMemoryIo(buf, len, destruct).
createMemoryIo == MemoryIo(0, 1)

\* __PHYSFS_ATOMIC_DECR(&info->refcount): the value after the decrement.
atomicDecr(w, id) ==
    Gave([w EXCEPT !.ios[id].refcount = @ - 1], w.ios[id].refcount - 1, <<>>, ERR_OK)

lastReference_Always(rc) == TRUE

\* if (__PHYSFS_ATOMIC_DECR(&info->refcount) == 0)
lastReference(rc) == rc = 0

MemInit ==
    /\ searchPath = <<>>
    /\ writeDir = NoDir
    /\ openReadList = <<>>
    /\ openWriteList = <<>>
    /\ longest_root = 0
    /\ allowSymLinks = FALSE
    /\ stateLock = NoThread
    /\ errCode = [t \in Threads |-> ERR_OK]
    /\ last = NoCall
    /\ SanIdle
    /\ data = MemBytes
    /\ ios = <<createMemoryIo>>
    /\ files = <<>>
    /\ reply = [id |-> 0, from |-> 0, bytes |-> <<>>]
    /\ ghost = [held |-> {1}, pos |-> <<0>>, destruct |-> <<TRUE>>, destructs |-> 0,
                overlap |-> FALSE]
    /\ pc = [t \in Threads |-> MemIdle]

MemKeep == <<searchPath, writeDir, openReadList, openWriteList, longest_root,
             allowSymLinks, stateLock, errCode, last, sanVars, files>>

\* io->duplicate(io) of a stream the application holds.
MemDuplicate(t, id) ==
    /\ pc[t] = MemIdle
    /\ id \in ghost.held
    /\ Len(ios) < MaxStreams
    /\ ios' = memoryIo_duplicate(World(data, ios, files), id).w.ios
    /\ ghost' = [ghost EXCEPT
                    !.held = @ \cup {memoryIo_duplicate(World(data, ios, files), id).rc},
                    !.pos = Append(@, 0),
                    !.destruct = Append(@, FALSE)]
    /\ UNCHANGED <<data, reply, pc, MemKeep>>

\* io->read(io, buf, len).
MemRead(t, id, len) ==
    /\ pc[t] = MemIdle
    /\ id \in ghost.held
    /\ ios' = memoryIo_read(World(data, ios, files), id, len).w.ios
    /\ reply' = [id |-> id, from |-> ghost.pos[id],
                 bytes |-> memoryIo_read(World(data, ios, files), id, len).bytes]
    /\ ghost' = [ghost EXCEPT
                    !.pos[id] = @ + Len(memoryIo_read(World(data, ios, files), id, len).bytes)]
    /\ UNCHANGED <<data, pc, MemKeep>>

\* io->seek(io, offset).
MemSeek(t, id, offset) ==
    /\ pc[t] = MemIdle
    /\ id \in ghost.held
    /\ ios' = memoryIo_seek(World(data, ios, files), id, offset).w.ios
    /\ ghost' = [ghost EXCEPT
                    !.pos[id] = IF memoryIo_seek(World(data, ios, files), id, offset).rc = 1
                                THEN offset ELSE @]
    /\ UNCHANGED <<data, reply, pc, MemKeep>>

\* io->destroy(io), first step: a duplicate frees itself and goes on to
\* parent->destroy(parent); the original goes on to its own decrement.
MemDestroy(t, id) ==
    /\ pc[t] = MemIdle
    /\ id \in ghost.held
    /\ ghost' = [ghost EXCEPT
                    !.held = @ \ {id},
                    !.overlap = @ \/ \E u \in Threads : pc[u] # MemIdle]
    /\ ios' = IF ios[id].parent # 0 THEN [ios EXCEPT ![id].kind = "freed"] ELSE ios
    /\ pc' = [pc EXCEPT ![t] =
                 [at |-> "decr", of |-> id,
                  io |-> IF ios[id].parent # 0 THEN ios[id].parent ELSE id]]
    /\ UNCHANGED <<data, reply, MemKeep>>

\* The decrement of the refcount of the original.
MemDecr(t) ==
    /\ pc[t].at = "decr"
    /\ ios' = atomicDecr(World(data, ios, files), pc[t].io).w.ios
    /\ pc' = [pc EXCEPT ![t] =
                 IF lastReference(atomicDecr(World(data, ios, files), pc[t].io).rc)
                 THEN [at |-> "free", io |-> pc[t].io, of |-> pc[t].of] ELSE MemIdle]
    /\ UNCHANGED <<data, reply, ghost, MemKeep>>

\* The last reference is gone: the original is freed and destruct(buf) runs.
MemFree(t) ==
    /\ pc[t].at = "free"
    /\ ios' = [ios EXCEPT ![pc[t].io].kind = "freed"]
    /\ data' = IF ghost.destruct[pc[t].io]
               THEN [k \in DOMAIN data |-> Garbage] ELSE data
    /\ ghost' = [ghost EXCEPT
                    !.destructs = IF ghost.destruct[pc[t].io] THEN @ + 1 ELSE @]
    /\ pc' = [pc EXCEPT ![t] = MemIdle]
    /\ UNCHANGED <<reply, MemKeep>>

MemNext ==
    \E t \in Threads :
        \/ \E id \in 1..MaxStreams : MemDuplicate(t, id)
        \/ \E id \in 1..MaxStreams, len \in 1..Len(MemBytes) : MemRead(t, id, len)
        \/ \E id \in 1..MaxStreams, offset \in 0..(Len(MemBytes) + 1) :
               MemSeek(t, id, offset)
        \/ \E id \in 1..MaxStreams : MemDestroy(t, id)
        \/ MemDecr(t)
        \/ MemFree(t)

SpecMem == MemInit /\ [][MemNext]_vars

\* C13: the destructor of a memory stream runs once, when the stream and
\* all its duplicates have been destroyed (in any order, by any threads)
\* and not before; until then every stream not yet destroyed is at the
\* position its own reads and seeks left it at and reads the bytes of the
\* original buffer.
C13_DestructOnceAtLast ==
    /\ ghost.destructs <= 1
    /\ ghost.destructs = 1 =>
           ghost.held = {} /\ \A t \in Threads : pc[t] = MemIdle
    /\ (ghost.held = {} /\ \A t \in Threads : pc[t] = MemIdle) =>
           ghost.destructs = 1
    /\ \A id \in ghost.held :
           /\ ios[id].kind = "memory"
           /\ ios[id].pos = ghost.pos[id]
    /\ ghost.held # {} => data = MemBytes
    /\ reply.bytes = SubSeq(MemBytes, reply.from + 1, reply.from + Len(reply.bytes))

\* Two duplicates were made, two threads were inside destroy at once, and
\* the destructor has run.
C13_Witness ==
    /\ ghost.destructs = 1
    /\ ghost.overlap
    /\ Len(ios) = MaxStreams

\* The streams whose reference to the original is counted in its refcount:
\* those not passed to destroy and those whose destroy has not reached the
\* decrement.
Referring ==
    { id \in 1..Len(ios) :
          id \in ghost.held \/ \E t \in Threads : pc[t].at = "decr" /\ pc[t].of = id }

\* What holds of the duplicates: refcount 0, no destructor, the original as
\* parent.
DuplicatesPlain ==
    \A id \in 2..Len(ios) :
        /\ ios[id].refcount = 0
        /\ ~ghost.destruct[id]
        /\ ios[id].parent = 1

\* C14: every duplicate of a memory stream has refcount 0, no destructor
\* and the original as its parent, and the refcount of the original is the
\* number of streams, the original among them, whose destroy has not
\* decremented it yet: 1 + the live duplicates while the original has not
\* been destroyed, and the live duplicates alone afterwards.
C14_RefcountCountsStreams ==
    /\ DuplicatesPlain
    /\ ios[1].refcount = Cardinality(Referring)
    /\ ios[1].parent = 0 /\ ghost.destruct[1]

\* The statement with 1 + the live duplicates in every state in which no
\* destroy is under way and the original is not freed.
C14_AsStated ==
    /\ DuplicatesPlain
    /\ (ios[1].kind = "memory" /\ \A t \in Threads : pc[t] = MemIdle) =>
           ios[1].refcount = 1 + Cardinality(ghost.held \ {1})

\* The original was destroyed while two duplicates are live.
C14_Witness ==
    /\ 1 \notin ghost.held
    /\ Cardinality(ghost.held) = 2
    /\ \A t \in Threads : pc[t] = MemIdle
    /\ ios[1].refcount = 2



(***************************************************************************)
(* Byte-range streams on their own.  data is the archive, ios[1] the       *)
(* stream UNPKinfo.io of the archive (memory or native), ghost.io the      *)
(* byte-range stream the calls go to: the one UNPK_openRead made for the   *)
(* entry, or its UNPK_duplicate.  reply is the last call: its argument,    *)
(* what it returned, the length it asked of the parent, and curPos and     *)
(* the position of the parent before it.  The entries are one inside the   *)
(* archive, an empty one, one no shorter than the wrap of curPos, and one  *)
(* that an archive header places past the end of the archive.              *)
(***************************************************************************)
RangeBytes == [k \in 1..(CurPosWrap + 3) |-> k]

RangeEntries ==
    { [startPos |-> 1, size |-> 3],
      [startPos |-> 2, size |-> 0],
      [startPos |-> 1, size |-> CurPosWrap + 1],
      [startPos |-> CurPosWrap + 1, size |-> 3] }

NoReply ==
    [op |-> "none", arg |-> 0, rc |-> 0, err |-> ERR_OK, asked |-> 0,
     cur |-> 0, ppos |-> 0]

RangeWorld == World(data, ios, files)

\* The stream the calls go to, and its parent stream.
RangeIo == ios[ghost.io]

RangeParent == ios[RangeIo.io]

RangeInit ==
    /\ searchPath = <<>>
    /\ writeDir = NoDir
    /\ openReadList = <<>>
    /\ openWriteList = <<>>
    /\ longest_root = 0
    /\ allowSymLinks = FALSE
    /\ stateLock = NoThread
    /\ pc = [t \in Threads |-> Idle]
    /\ errCode = [t \in Threads |-> ERR_OK]
    /\ last = NoCall
    /\ SanIdle
    /\ data = RangeBytes
    /\ files = <<>>
    /\ reply = NoReply
    /\ \E parent \in ArchiveIos, entry \in RangeEntries :
           /\ ios = UNPK_openReadAt(World(RangeBytes, <<parent>>, <<>>), 1, entry).w.ios
           /\ ghost = [io |-> UNPK_openReadAt(World(RangeBytes, <<parent>>, <<>>),
                                              1, entry).rc]

RangeKeep == <<searchPath, writeDir, openReadList, openWriteList, longest_root,
               allowSymLinks, stateLock, pc, errCode, last, sanVars, data, files>>

Called(op, arg, asked, r) ==
    /\ ios' = r.w.ios
    /\ reply' = [op |-> op, arg |-> arg, rc |-> r.rc, err |-> r.err,
                 asked |-> asked, cur |-> RangeIo.curPos, ppos |-> RangeParent.pos]
    /\ UNCHANGED <<ghost, RangeKeep>>

\* io->read(io, buf, len) of the byte-range stream.
RangeRead(len, chunk) ==
    Called("read", len, UNPK_readLen(RangeWorld, ghost.io, len),
           UNPK_read(RangeWorld, ghost.io, len, chunk))

\* io->seek(io, offset).
RangeSeek(offset) ==
    Called("seek", offset, 0, UNPK_seek(RangeWorld, ghost.io, offset))

\* io->tell(io).
RangeTell ==
    Called("tell", 0, 0, Gave(RangeWorld, UNPK_tell(RangeWorld, ghost.io), <<>>, ERR_OK))

\* io->duplicate(io): the calls go to the duplicate from here on.
RangeDuplicate ==
    /\ Len(ios) <= 3
    /\ ios' = UNPK_duplicate(RangeWorld, ghost.io).w.ios
    /\ ghost' = [io |-> UNPK_duplicate(RangeWorld, ghost.io).rc]
    /\ reply' = NoReply
    /\ UNCHANGED RangeKeep

RangeNext ==
    \/ \E len \in 1..MaxBytes, chunk \in Chunks : RangeRead(len, chunk)
    \/ \E offset \in 0..(CurPosWrap + 2) : RangeSeek(offset)
    \/ RangeTell
    \/ RangeDuplicate

SpecRange == RangeInit /\ [][RangeNext]_vars

\* C15: the position of a byte-range stream is between 0 and the size of
\* its entry and is what tell returns; a read asks the parent for no more
\* than the bytes left of the entry, returns no more than that, and moves
\* the position by the number of bytes it returned.
C15_CursorExact ==
    /\ 0 <= RangeIo.curPos /\ RangeIo.curPos <= RangeIo.entry.size
    /\ reply.op = "tell" => reply.rc = RangeIo.curPos
    /\ reply.op = "read" =>
           /\ reply.asked <= RangeIo.entry.size - reply.cur
           /\ reply.rc <= reply.asked
           /\ RangeIo.curPos = reply.cur + (IF reply.rc > 0 THEN reply.rc ELSE 0)

\* The same for the entries shorter than the wrap of curPos.
C15_ShortEntries ==
    RangeIo.entry.size < CurPosWrap => C15_CursorExact

\* C16: a seek of a byte-range stream to an offset at or past the size of
\* the entry fails with PAST_EOF and leaves the position and the position
\* of the parent as they were; a seek to any other offset succeeds, sets
\* the position to the offset and the parent to the start of the entry plus
\* the offset.
C16_SeekPastEof ==
    reply.op = "seek" =>
        IF reply.arg >= RangeIo.entry.size
        THEN /\ reply.rc = 0 /\ reply.err = ERR_PAST_EOF
             /\ RangeIo.curPos = reply.cur
             /\ RangeParent.pos = reply.ppos
        ELSE /\ reply.rc = 1
             /\ RangeIo.curPos = reply.arg
             /\ RangeParent.pos = RangeIo.entry.startPos + reply.arg

\* The same for the entries shorter than the wrap of curPos.
C16_ShortEntries ==
    RangeIo.entry.size < CurPosWrap => C16_SeekPastEof



(***************************************************************************)
(* PHYSFS_close with the buffers.  files[h] is the FileHandle of the       *)
(* PHYSFS_File h (NoFile: never opened, or freed), openReadList and        *)
(* openWriteList hold the names of the handles linked in them; "h1" is     *)
(* opened for writing the file data, "h2" for reading it.  reply is the    *)
(* last call; for a close it holds the handle, what the call returned,     *)
(* whether the platform took a part only of the bytes the close offered    *)
(* it, and the state before the call.  ghost.initialized is the flag of    *)
(* that name and ghost.archivers is numArchivers.                          *)
(***************************************************************************)
\* The bytes of the buffer of a write handle the stream has not got yet.
Pending(fh) == SubSeq(fh.buffer, fh.bufpos + 1, fh.buffill)

\* PHYSFS_close, physfs.cpp 2411-2428: the handle is looked for in
\* openReadList, then in openWriteList.
closeInLists(w, rl, wl, h, accept, flushed) ==
    LET Out(r, nrl, nwl) ==
            IF r.rc = -1
            THEN [w |-> r.w, rl |-> rl, wl |-> wl, rc |-> 0, err |-> r.err]
            ELSE [w |-> r.w, rl |-> nrl, wl |-> nwl, rc |-> 1, err |-> ERR_OK]
    IN  IF h \in Range(rl)
        THEN Out(closeHandleInOpenList(w, h, accept, flushed),
                 SelectSeq(rl, LAMBDA z : z # h), wl)
        ELSE IF h \in Range(wl)
        THEN Out(closeHandleInOpenList(w, h, accept, flushed),
                 rl, SelectSeq(wl, LAMBDA z : z # h))
        ELSE [w |-> w, rl |-> rl, wl |-> wl, rc |-> 0, err |-> ERR_INVALID_ARGUMENT]

CloseWorld == World(data, ios, files)

NoClose ==
    [op |-> "none", h |-> "", rc |-> 0, err |-> ERR_OK, short |-> FALSE,
     was |-> [data |-> <<>>, file |-> NoFile, rl |-> <<>>, wl |-> <<>>, ios |-> <<>>]]

\* The write dir and the one mount of the search path: the state after
\* PHYSFS_init, PHYSFS_setWriteDir and PHYSFS_mount.  The files of "h1" are
\* those of the write dir, the file of "h2" is one of the mount.
TheWriteDir == [NoDir EXCEPT !.id = 1, !.dirName = "W"]

TheMount == [NoDir EXCEPT !.id = 2, !.dirName = "A"]

CloseInit ==
    /\ searchPath = <<TheMount>>
    /\ writeDir = TheWriteDir
    /\ openReadList = <<>>
    /\ openWriteList = <<>>
    /\ longest_root = 0
    /\ allowSymLinks = FALSE
    /\ stateLock = NoThread
    /\ pc = [t \in Threads |-> Idle]
    /\ errCode = [t \in Threads |-> ERR_OK]
    /\ last = NoCall
    /\ SanIdle
    /\ data = <<>>
    /\ ios = <<>>
    /\ files = [h \in Handles |-> NoFile]
    /\ ghost = [opened |-> {}, offered |-> 0, initialized |-> TRUE, archivers |-> 1]
    /\ reply = NoClose

CloseKeep == <<searchPath, writeDir, longest_root, allowSymLinks, stateLock, pc,
               errCode, last, sanVars>>

Took(r, op) ==
    /\ data' = r.w.data
    /\ ios' = r.w.ios
    /\ files' = r.w.files
    /\ reply' = [NoClose EXCEPT !.op = op, !.rc = r.rc, !.err = r.err]

\* PHYSFS_openWrite: the new handle is linked at the head of openWriteList.
CloseOpenWrite ==
    /\ ghost.initialized
    /\ "h1" \notin ghost.opened
    /\ Took(Gave(NativeOpenWrite(CloseWorld, "h1"), 1, <<>>, ERR_OK), "openWrite")
    /\ openWriteList' = <<"h1">> \o openWriteList
    /\ ghost' = [ghost EXCEPT !.opened = @ \cup {"h1"}]
    /\ UNCHANGED <<openReadList, CloseKeep>>

\* PHYSFS_openRead: the new handle is linked at the head of openReadList.
CloseOpenRead ==
    /\ ghost.initialized
    /\ "h2" \notin ghost.opened
    /\ Took(Gave(NativeOpenRead(CloseWorld, "h2"), 1, <<>>, ERR_OK), "openRead")
    /\ openReadList' = <<"h2">> \o openReadList
    /\ ghost' = [ghost EXCEPT !.opened = @ \cup {"h2"}]
    /\ UNCHANGED <<openWriteList, CloseKeep>>

CloseSetBuffer(k, accept) ==
    /\ "h1" \in Range(openWriteList)
    /\ Took(PHYSFS_setBuffer(CloseWorld, "h1", k, accept), "setBuffer")
    /\ UNCHANGED <<openReadList, openWriteList, ghost, CloseKeep>>

CloseWrite(len, accept, accept2) ==
    /\ "h1" \in Range(openWriteList)
    /\ ghost.offered + len <= MaxBytes
    /\ Took(PHYSFS_writeBytes(CloseWorld, "h1", [i \in 1..len |-> ghost.offered + i],
                              accept, accept2), "writeBytes")
    /\ ghost' = [ghost EXCEPT !.offered = @ + len]
    /\ UNCHANGED <<openReadList, openWriteList, CloseKeep>>

\* PHYSFS_close(h), of any handle: open, closed before, or never opened.
CloseClose(h, accept, flushed) ==
    LET Closed(r) ==
            /\ data' = r.w.data
            /\ ios' = r.w.ios
            /\ files' = r.w.files
            /\ openReadList' = r.rl
            /\ openWriteList' = r.wl
            /\ reply' = [op |-> "close", h |-> h, rc |-> r.rc, err |-> r.err,
                         short |-> /\ h \in Range(openWriteList)
                                   /\ 0 < accept
                                   /\ accept < Len(Pending(files[h])),
                         was |-> [data |-> data, file |-> files[h],
                                  rl |-> openReadList, wl |-> openWriteList,
                                  ios |-> ios]]
    IN  /\ ghost.initialized
        /\ Closed(closeInLists(CloseWorld, openReadList, openWriteList, h,
                               accept, flushed))
        /\ UNCHANGED <<ghost, CloseKeep>>


\* closeFileHandleList, physfs.cpp 1054-1071: every handle of the list is
\* destroyed without PHYSFS_flush; flushed is the set of handles whose
\* io->flush succeeds, and the list is cut at the first that fails.
RECURSIVE closeFileHandleList(_, _, _)
closeFileHandleList(w, list, flushed) ==
    IF list = <<>> THEN [w |-> w, list |-> <<>>, rc |-> 1]
    ELSE IF list[1] \notin flushed THEN [w |-> w, list |-> list, rc |-> 0]
    ELSE closeFileHandleList(
             [io_destroy(w, w.files[list[1]].io) EXCEPT !.files[list[1]] = NoFile],
             SubSeq(list, 2, Len(list)), flushed)

\* doDeinit, physfs.cpp 1137-1184: the state it leaves and what it returns.
\* PHYSFS_setWriteDir(nullptr) fails when a handle is left on openWriteList
\* (freeDirHandle); the io->flush of a handle open for reading succeeds.
doDeinit(w, rl, wl, flushed) ==
    LET Freed(r) ==
            [w |-> r.w, rl |-> r.list, wl |-> <<>>, searchPath |-> <<>>,
             writeDir |-> NoDir, initialized |-> FALSE, archivers |-> 0,
             rc |-> 1, err |-> ERR_OK]
        Wrote(r) ==
            IF writeDir # NoDir /\ r.list # <<>>
            THEN [w |-> r.w, rl |-> rl, wl |-> r.list, searchPath |-> searchPath,
                  writeDir |-> writeDir, initialized |-> TRUE,
                  archivers |-> ghost.archivers, rc |-> 0,
                  err |-> ERR_FILES_STILL_OPEN]
            ELSE Freed(closeFileHandleList(r.w, rl, Handles))
    IN  Wrote(closeFileHandleList(w, wl, flushed))

\* PHYSFS_deinit().
CloseDeinit(flushed) ==
    LET Left(r) ==
            /\ data' = r.w.data
            /\ ios' = r.w.ios
            /\ files' = r.w.files
            /\ openReadList' = r.rl
            /\ openWriteList' = r.wl
            /\ searchPath' = r.searchPath
            /\ writeDir' = r.writeDir
            /\ ghost' = [ghost EXCEPT !.initialized = r.initialized,
                                      !.archivers = r.archivers]
            /\ reply' = [op |-> "deinit", h |-> "", rc |-> r.rc, err |-> r.err,
                         short |-> FALSE, flushed |-> flushed,
                         was |-> [data |-> data, file |-> files["h1"],
                                  rl |-> openReadList, wl |-> openWriteList,
                                  ios |-> ios]]
    IN  /\ ghost.initialized
        /\ Left(doDeinit(CloseWorld, openReadList, openWriteList, flushed))
        /\ UNCHANGED <<longest_root, allowSymLinks, stateLock, pc, errCode, last,
                       sanVars>>

CloseNext ==
    \/ CloseOpenWrite
    \/ CloseOpenRead
    \/ \E k \in BufSizes, accept \in Accepts : CloseSetBuffer(k, accept)
    \/ \E len \in 1..2, accept \in Accepts, accept2 \in Accepts :
           CloseWrite(len, accept, accept2)
    \/ \E h \in Handles, accept \in Accepts, flushed \in BOOLEAN :
           CloseClose(h, accept, flushed)
    \/ \E flushed \in SUBSET {"h1"} : CloseDeinit(flushed)

SpecClose == CloseInit /\ [][CloseNext]_vars

\* C17: a PHYSFS_close of a write handle that succeeds has written the
\* bytes of the user buffer to the stream before it destroyed the stream,
\* and leaves the handle on neither list; one that fails has not destroyed
\* the stream and leaves the handle on openWriteList with every byte of
\* its buffer either still buffered or written; a PHYSFS_close of a handle
\* on neither list fails with INVALID_ARGUMENT and changes nothing.
C17_CloseWritesThenDestroys ==
    reply.op = "close" =>
        LET h == reply.h
            was == reply.was
        IN  /\ (h \in Range(was.wl) /\ reply.rc = 1) =>
                   /\ h \notin Range(openReadList) \cup Range(openWriteList)
                   /\ ios[was.file.io].kind = "freed"
                   /\ files[h] = NoFile
                   /\ data = was.data \o Pending(was.file)
            /\ (h \in Range(was.wl) /\ reply.rc = 0) =>
                   /\ openWriteList = was.wl
                   /\ ios[was.file.io].kind = "native"
                   /\ files[h].io = was.file.io
                   /\ data \o Pending(files[h]) = was.data \o Pending(was.file)
            /\ (h \notin Range(was.wl) \cup Range(was.rl)) =>
                   /\ reply.rc = 0 /\ reply.err = ERR_INVALID_ARGUMENT
                   /\ data = was.data /\ ios = was.ios /\ files[h] = was.file
                   /\ openReadList = was.rl /\ openWriteList = was.wl

\* The same for the closes in which the platform took all or none of the
\* bytes offered.
C17_NoShortWrite ==
    ~reply.short => C17_CloseWritesThenDestroys



\* C18: PHYSFS_deinit with a handle open for writing fails with
\* FILES_STILL_OPEN and leaves the library initialized, with that handle,
\* the write dir and the mounts in place; with none open it succeeds and
\* leaves the library not initialized, the search path empty, no write dir,
\* no handle open for reading and no archiver registered.
C18_DeinitKeepsWriters ==
    reply.op = "deinit" =>
        IF reply.was.wl # <<>>
        THEN /\ reply.rc = 0 /\ reply.err = ERR_FILES_STILL_OPEN
             /\ ghost.initialized
             /\ openWriteList = reply.was.wl
             /\ files["h1"] = reply.was.file
             /\ writeDir = TheWriteDir
             /\ searchPath = <<TheMount>>
        ELSE /\ reply.rc = 1
             /\ ~ghost.initialized
             /\ searchPath = <<>>
             /\ writeDir = NoDir
             /\ openReadList = <<>>
             /\ ghost.archivers = 0

\* The same for the calls in which no handle is open for writing or the
\* io->flush of the handle open for writing fails.
C18_WhenFlushFails ==
    (reply.op = "deinit" /\ Range(reply.was.wl) \cap reply.flushed = {})
        => C18_DeinitKeepsWriters



-----------------------------------------------------------------------------
(* PHYSFS_enumerate step by step.  The application's callback is a step of   *)
(* its own, whose answer the application chooses at each invocation; the     *)
(* steps between two invocations are one step each.  pc[t] holds the locals  *)
(* of the call and ghost the invocations of the callback in the call, each   *)
(* as [dh, name, answer].                                                    *)

\* An enumerateFromMountPoint that passes the first segment of the mount
\* point whatever arcfname is.
enumerateFromMountPoint_First(h, arcfname) ==
    SubSeq(h.mountPoint, 1, StrChrSlash(h.mountPoint, 1) - 1)

\* enumerateFromMountPoint, physfs.cpp 2081-2104: the name it passes to the
\* callback, which is the segment of the mount point that follows arcfname
\* (2095-2098).  partOfMountPoint has made sure that there is a '/' to find.
enumerateFromMountPoint(h, arcfname) ==
    LET Segment(ptr) == SubSeq(h.mountPoint, ptr, StrChrSlash(h.mountPoint, ptr) - 1)
    IN  Segment(IF Len(arcfname) > 0 THEN Len(arcfname) + 2 ELSE 1)

\* A loop over the search path that goes on whatever the callback answered.
enumerateGoesOn_Always(sp, k, retval) == k <= Len(sp)

\* The condition of the loop of PHYSFS_enumerate, physfs.cpp 2177.
enumerateGoesOn(sp, k, retval) == retval = ENUM_OK /\ k <= Len(sp)

\* __PHYSFS_platformEnumerate, called by DIR_enumerate
\* (archivers/physfs_archiver_dir.cpp 55-66): the entries of the directory,
\* which the platform hands to the callback one by one, each by its name in
\* the directory, until the callback answers other than PHYSFS_ENUM_OK.
platformEnumerate(dirName, path) == KidsOf(dirName, path)

\* The locals of a call of PHYSFS_enumerate: the argument _fn, the buffer and
\* the position of fname in it, the index k of the DirHandle i, retval, the
\* backend functions invoked so far, and, inside funcs->enumerate, the
\* entries of the directory, the index of the current one, and whether
\* the callback handed to the backend is enumCallbackFilterSymLinks.
Enumerating(at, m, k, buf, retval, calls, kids, i, filter, name) ==
    [at |-> at, io |-> 0, fn |-> m.fn, buf |-> buf, fname |-> m.fname, k |-> k,
     retval |-> retval, calls |-> calls, kids |-> kids, i |-> i,
     filter |-> filter, name |-> name]

EnumKeep == <<searchPath, writeDir, openReadList, openWriteList, longest_root,
              allowSymLinks, sanVars, data, ios, files, reply>>

\* PHYSFS_enumerate, physfs.cpp 2150-2176: grab stateLock and sanitize the
\* path.  A path that sanitation rejects sets retval to PHYSFS_ENUM_STOP
\* (2165-2166), and the call returns at once.
enumerateBegin(t, fn) ==
    /\ pc[t].at = "idle"
    /\ CanGrab(t)
    /\ ghost' = <<>>
    /\ LET Sanitized(san) ==
               IF ~san.ok
               THEN /\ errCode' = [errCode EXCEPT ![t] = san.err]
                    /\ last' = Returned("enumerate", t, "", fn, 1, {}, 0)
                    /\ UNCHANGED <<stateLock, pc>>
               ELSE /\ stateLock' = t
                    /\ pc' = [pc EXCEPT ![t] =
                                Enumerating("loop",
                                            [fn |-> fn, fname |-> longest_root + 2],
                                            1, PathBuffer(longest_root + 1, san.dst),
                                            ENUM_OK, {}, <<>>, 0, FALSE, <<>>)]
                    /\ UNCHANGED <<errCode, last>>
       IN  Sanitized(sanitizePlatformIndependentPath(fn))
    /\ UNCHANGED EnumKeep

\* One iteration of the loop, physfs.cpp 2177-2210, up to the first
\* invocation of a callback: the DirHandle is skipped (2187, 2191 or a failed
\* verifyPath), or enumerateFromMountPoint is about to invoke the callback
\* (2099), or funcs->enumerate has been entered (2197, 2206).
enumerateMount(t) ==
    /\ pc[t].at = "loop"
    /\ enumerateGoesOn(searchPath, pc[t].k, pc[t].retval)
    /\ LET m == pc[t]
           h == searchPath[m.k]
           Skip(buf, e, calls) ==
               /\ pc' = [pc EXCEPT ![t] =
                           Enumerating("loop", m, m.k + 1, buf, ENUM_OK, calls,
                                       <<>>, 0, FALSE, <<>>)]
               /\ errCode' = [errCode EXCEPT ![t] = e]
           Stated(v, arcfname, st, stated) ==
               IF ~st.ok THEN Skip(v.buf, st.err, stated)
               ELSE IF st.filetype # FT_DIRECTORY THEN Skip(v.buf, v.err, stated)
               ELSE /\ pc' = [pc EXCEPT ![t] =
                                Enumerating("entries", m, m.k, v.buf, ENUM_OK,
                                            stated \cup {Call(h, "enumerate", arcfname, FALSE)},
                                            IF IsDirSource(h.dirName)
                                            THEN platformEnumerate(h.dirName, arcfname)
                                            ELSE KidsOf(h.dirName, arcfname), 1,
                                            ~allowSymLinks /\ IsDirSource(h.dirName),
                                            <<>>)]
                    /\ errCode' = [errCode EXCEPT ![t] = v.err]
           Walked(v, arcfname, walked) ==
               IF ~v.ok THEN Skip(v.buf, v.err, walked)
               ELSE Stated(v, arcfname, ArcStat(h.dirName, arcfname),
                           walked \cup {Call(h, "stat", arcfname, FALSE)})
           Verified(v) == Walked(v, CStr(v.buf, v.fname), m.calls \cup WalkCalls(h, v))
       IN  IF partOfMountPoint(h, CStr(m.buf, m.fname))
           THEN /\ pc' = [pc EXCEPT ![t] =
                            Enumerating("callback", m, m.k, m.buf, ENUM_OK, m.calls,
                                        <<>>, 0, FALSE,
                                        enumerateFromMountPoint(h, CStr(m.buf, m.fname)))]
                /\ UNCHANGED errCode
           ELSE Verified(verifyPath(h, m.buf, m.fname, FALSE, allowSymLinks,
                                    errCode[t]))
    /\ UNCHANGED <<stateLock, last, ghost>>
    /\ UNCHANGED EnumKeep

\* funcs->enumerate between two invocations of the callback
\* (__PHYSFS_DirTreeEnumerate, physfs_tree.cpp 134-140, and the platform's
\* loop for a directory): the entries are done and the backend returns
\* PHYSFS_ENUM_OK, or the next entry is handed to the callback by its last
\* segment (136-137).  enumCallbackFilterSymLinks, physfs.cpp 2114-2148,
\* stats the entry and goes on to the next one when it is a symbolic link.
enumerateEntry(t) ==
    /\ pc[t].at = "entries"
    /\ LET m == pc[t]
           h == searchPath[m.k]
           stated == IF m.filter THEN m.calls \cup {Call(h, "stat", m.kids[m.i], FALSE)}
                     ELSE m.calls
       IN  pc' = [pc EXCEPT ![t] =
                    IF m.i > Len(m.kids)
                    THEN Enumerating("loop", m, m.k + 1, m.buf, ENUM_OK, m.calls,
                                     <<>>, 0, FALSE, <<>>)
                    ELSE IF m.filter /\ ArcStat(h.dirName, m.kids[m.i]).filetype = FT_SYMLINK
                    THEN Enumerating("entries", m, m.k, m.buf, ENUM_OK, stated,
                                     m.kids, m.i + 1, m.filter, <<>>)
                    ELSE Enumerating("callback", m, m.k, m.buf, ENUM_OK, stated,
                                     m.kids, m.i, m.filter, BaseName(m.kids[m.i]))]
    /\ UNCHANGED <<stateLock, last, ghost, errCode>>
    /\ UNCHANGED EnumKeep

\* The application's callback is invoked with the name and answers.
\* PHYSFS_ENUM_OK from an entry goes on to the next entry; any other answer
\* ends funcs->enumerate with that answer (physfs_tree.cpp 134, 138), and
\* PHYSFS_ENUM_ERROR sets PHYSFS_ERR_APP_CALLBACK (physfs_tree.cpp 138,
\* physfs.cpp 2102 and 2200-2203).
enumerateCallback(t, answer) ==
    /\ pc[t].at = "callback"
    /\ LET m == pc[t]
           h == searchPath[m.k]
       IN  /\ ghost' = Append(ghost, [dh |-> h.id, name |-> m.name, answer |-> answer])
           /\ pc' = [pc EXCEPT ![t] =
                       IF answer = ENUM_OK /\ m.i > 0
                       THEN Enumerating("entries", m, m.k, m.buf, ENUM_OK, m.calls,
                                        m.kids, m.i + 1, m.filter, <<>>)
                       ELSE Enumerating("loop", m, m.k + 1, m.buf, answer, m.calls,
                                        <<>>, 0, FALSE, <<>>)]
    /\ errCode' = IF answer = ENUM_ERROR
                  THEN [errCode EXCEPT ![t] = ERR_APP_CALLBACK] ELSE errCode
    /\ UNCHANGED <<stateLock, last>>
    /\ UNCHANGED EnumKeep

\* The loop is over, physfs.cpp 2213-2215: release stateLock and return.
enumerateReturn(t) ==
    /\ pc[t].at = "loop"
    /\ ~enumerateGoesOn(searchPath, pc[t].k, pc[t].retval)
    /\ stateLock' = NoThread
    /\ last' = Returned("enumerate", t, "", pc[t].fn,
                        IF pc[t].retval = ENUM_ERROR THEN 0 ELSE 1,
                        pc[t].calls, Len(ghost))
    /\ pc' = [pc EXCEPT ![t] = Idle]
    /\ UNCHANGED <<ghost, errCode>>
    /\ UNCHANGED EnumKeep

-----------------------------------------------------------------------------
(* SpecEnum: one thread mounting "A" and "B" at the root, at "m" and at      *)
(* "x/m", head or tail, permitting and forbidding symbolic links, and        *)
(* calling PHYSFS_stat, PHYSFS_exists and PHYSFS_enumerate on the root, on   *)
(* the mount points, on their prefixes and on paths below them.  "x" is a    *)
(* file of both sources.                                                     *)

EnumMountPoints == {NullPath, <<"m">>, <<"x", "/", "m">>}
EnumPaths == {<<>>, <<"x">>, <<"m">>, <<"x", "/", "m">>, <<"m", "/", "g">>,
              <<"x", "/", "m", "/", "g">>}

EnumMount ==
    \E newDir \in PathMountNames, mountPoint \in EnumMountPoints,
       appendToPath \in BOOLEAN :
        PHYSFS_mount("t1", newDir, mountPoint, appendToPath)

EnumMountLink == doMountLink("t1")

EnumPermitSymbolicLinks ==
    \E allow \in BOOLEAN : PHYSFS_permitSymbolicLinks("t1", allow)

EnumStat == \E fname \in EnumPaths : PHYSFS_stat("t1", fname)

EnumExists == \E fname \in EnumPaths : PHYSFS_exists("t1", fname)

EnumBegin == \E fn \in EnumPaths \cup {<<"x", COLON>>} : enumerateBegin("t1", fn)

EnumVisit == enumerateMount("t1")

EnumEntry == enumerateEntry("t1")

EnumCallback == \E answer \in EnumAnswers : enumerateCallback("t1", answer)

EnumReturn == enumerateReturn("t1")

EnumNext ==
    \/ EnumMount
    \/ EnumMountLink
    \/ EnumPermitSymbolicLinks
    \/ EnumStat
    \/ EnumExists
    \/ EnumBegin
    \/ EnumVisit
    \/ EnumEntry
    \/ EnumCallback
    \/ EnumReturn

SpecEnum == Init /\ [][EnumNext]_vars



\* The segments m1, ..., mk of the mount point of h, which is stored with a
\* '/' at its end; none for a mount at the root.
MountSegments(h) == Segments(SubSeq(h.mountPoint, 1, Len(h.mountPoint) - 1))

IsPrefix(a, b) == Len(a) <= Len(b) /\ SubSeq(b, 1, Len(a)) = a

\* path is m1/.../mi for a mount h grafted at m1/.../mk, with 0 <= i < k.
ProperPrefixOf(path, h) ==
    /\ Len(Segments(path)) < Len(MountSegments(h))
    /\ IsPrefix(Segments(path), MountSegments(h))

\* path is the mount point of the grafted mount h.
AtMountPoint(path, h) ==
    h.mountPoint # <<>> /\ Segments(path) = MountSegments(h)

\* The segments of path below the mount point of h.
BelowMountPoint(path, h) ==
    SubSeq(Segments(path), Len(MountSegments(h)) + 1, Len(Segments(path)))

\* The last call was PHYSFS_enumerate, it has returned, and the callback
\* answered PHYSFS_ENUM_OK every time.
EnumeratedAll ==
    /\ pc["t1"].at = "idle"
    /\ last.op = "enumerate"
    /\ \A j \in 1..Len(ghost) : ghost[j].answer = ENUM_OK

\* The names the callback received from the mount h, in order.
NamesFrom(h) ==
    LET From(s) == [j \in 1..Len(s) |-> s[j].name]
    IN  From(SelectSeq(ghost, LAMBDA c : c.dh = h.id))

\* The names of the entries of the root of the source of h.
RootNames(h) ==
    { BaseName(q) : q \in { r \in DOMAIN Tree(h.dirName) : ParentOf(r) = <<>> } }

\* The entries of the root of h that are symbolic links.
RootLinks(h) ==
    { BaseName(q) : q \in { r \in DOMAIN Tree(h.dirName) :
                              ParentOf(r) = <<>> /\ Tree(h.dirName)[r] = FT_SYMLINK } }

\* The first mount of the search path that has path as a proper prefix of
\* its mount point.
FirstGrafted(path) ==
    CHOOSE k \in 1..Len(searchPath) :
        /\ ProperPrefixOf(path, searchPath[k])
        /\ \A j \in 1..(k - 1) : ~ProperPrefixOf(path, searchPath[j])

\* A proper prefix of a mount point exists.
C19_PrefixExists ==
    /\ last.op = "exists"
    /\ \E h \in Range(searchPath) : ProperPrefixOf(last.path, h)
    => last.ret = 1

\* A proper prefix of a mount point stats as a directory.
C19_PrefixIsDirectory ==
    /\ last.op = "stat"
    /\ \E h \in Range(searchPath) : ProperPrefixOf(last.path, h)
    => last.ret = 1 /\ last.filetype = FT_DIRECTORY

\* A proper prefix of a mount point stats as a directory, or as the entry
\* that a mount earlier in the search path holds at that path.
C19_PrefixIsDirectoryOrShadowed ==
    /\ last.op = "stat"
    /\ \E h \in Range(searchPath) : ProperPrefixOf(last.path, h)
    => /\ last.ret = 1
       /\ \/ last.filetype = FT_DIRECTORY
          \/ \E j \in 1..(FirstGrafted(last.path) - 1) :
                /\ IsPrefix(MountSegments(searchPath[j]), Segments(last.path))
                /\ \E q \in DOMAIN Tree(searchPath[j].dirName) :
                      /\ Segments(q) = BelowMountPoint(last.path, searchPath[j])
                      /\ Tree(searchPath[j].dirName)[q] = last.filetype

\* Enumerating the prefix m1/.../mi of the mount point of h yields from h the
\* single name m(i+1).
C19_PrefixEnumerates ==
    \A h \in Range(searchPath) :
        EnumeratedAll /\ ProperPrefixOf(last.path, h)
        => NamesFrom(h) = <<MountSegments(h)[Len(Segments(last.path)) + 1]>>

\* What a lookup hands to the backend of a mount is the path below the mount
\* point: the path itself for stat and enumerate, and for the stats that
\* verifyPath and enumCallbackFilterSymLinks make a prefix of it or an entry
\* of it.
C19_Stripped ==
    \A h \in Range(searchPath), c \in last.calls :
        last.op \in {"exists", "stat", "enumerate"} /\ pc["t1"].at = "idle" /\ c.dh = h.id
        => /\ IsPrefix(MountSegments(h), Segments(last.path))
           /\ \/ Segments(c.path) = BelowMountPoint(last.path, h)
              \/ c.fn = "stat" /\ c.walk
                   /\ IsPrefix(Segments(c.path), BelowMountPoint(last.path, h))
              \/ c.fn = "stat" /\ last.op = "enumerate"
                   /\ Segments(ParentOf(c.path)) = BelowMountPoint(last.path, h)

\* The mount point of a grafted mount exists.
C19_MountPointExists ==
    /\ last.op = "exists"
    /\ \E h \in Range(searchPath) : AtMountPoint(last.path, h)
    => last.ret = 1

\* Enumerating the mount point of h yields from h the entries of its root.
C19_MountPointEnumerates ==
    \A h \in Range(searchPath) :
        EnumeratedAll /\ AtMountPoint(last.path, h)
        => Range(NamesFrom(h)) = RootNames(h) /\ Len(NamesFrom(h)) = Cardinality(RootNames(h))

\* Enumerating the mount point of h yields from h the entries of its root,
\* without the symbolic links when they are forbidden and the backend
\* supports them.
C19_MountPointEnumeratesFiltered ==
    \A h \in Range(searchPath) :
        EnumeratedAll /\ AtMountPoint(last.path, h)
        => LET Yielded(names) ==
                   /\ Range(NamesFrom(h)) = names
                   /\ Len(NamesFrom(h)) = Cardinality(names)
           IN  Yielded(IF ~allowSymLinks /\ IsDirSource(h.dirName)
                       THEN RootNames(h) \ RootLinks(h) ELSE RootNames(h))

\* C19 as stated: every proper prefix of a mount point exists, stats as a
\* directory and enumerates from that mount as the single next segment; the
\* mount point and the paths below it reach the backend stripped of the
\* mount point, the mount point exists and enumerates as the entries of the
\* root of the archive.
C19_AsStated ==
    /\ C19_PrefixExists
    /\ C19_PrefixIsDirectory
    /\ C19_PrefixEnumerates
    /\ C19_Stripped
    /\ C19_MountPointExists
    /\ C19_MountPointEnumerates

\* C19: every proper prefix m1/.../mi of the mount point of a mount exists,
\* stats as a directory unless an earlier mount holds an entry at that path,
\* which is then what stat reports, and enumerates from that mount as the
\* single name m(i+1); the mount point and the paths below it reach the
\* backend stripped of the mount point, the mount point exists, and
\* enumerating it yields the entries of the root of the archive, without
\* the symbolic links while they are forbidden and the backend supports them.
C19_GraftedMount ==
    /\ C19_PrefixExists
    /\ C19_PrefixIsDirectoryOrShadowed
    /\ C19_PrefixEnumerates
    /\ C19_Stripped
    /\ C19_MountPointExists
    /\ C19_MountPointEnumeratesFiltered

\* "B" is mounted at "x/m" and enumerating "x" has passed "m" to the callback.
C19_Witness ==
    /\ EnumeratedAll
    /\ last.path = <<"x">>
    /\ \E h \in Range(searchPath) :
          /\ h.mountPoint = <<"x", "/", "m", "/">>
          /\ h.dirName = "B"
          /\ NamesFrom(h) = <<<<"m">>>>



\* ghost holds the invocations of the call of PHYSFS_enumerate that is under
\* way or was the last call to return.
InEnumerate ==
    \/ pc["t1"].at \in {"loop", "entries", "callback"}
    \/ pc["t1"].at = "idle" /\ last.op = "enumerate"

\* The callback has answered PHYSFS_ENUM_STOP or PHYSFS_ENUM_ERROR.
Stopped == ghost # <<>> /\ ghost[Len(ghost)].answer # ENUM_OK

\* After such an answer the callback is not invoked until the call has
\* returned and another call begins.
C20_NeverAgainStep ==
    Stopped => \/ ghost' = ghost
               \/ pc["t1"].at = "idle" /\ ghost' = <<>>

\* Every answer before the last one of a call was PHYSFS_ENUM_OK, and a call
\* that is about to invoke the callback has had no other answer.
C20_OneStop ==
    /\ \A j \in 1..(Len(ghost) - 1) : ghost[j].answer = ENUM_OK
    /\ pc["t1"].at \in {"entries", "callback"} => ~Stopped

\* What the call returns after PHYSFS_ENUM_STOP and after PHYSFS_ENUM_ERROR.
C20_Returns ==
    pc["t1"].at = "idle" /\ last.op = "enumerate" /\ Stopped
    => /\ ghost[Len(ghost)].answer = ENUM_STOP => last.ret = 1
       /\ ghost[Len(ghost)].answer = ENUM_ERROR
            => last.ret = 0 /\ errCode["t1"] = ERR_APP_CALLBACK

\* The name of an invocation is one segment: the last segment of an entry
\* of the mount it comes from, or the segment of the mount point that
\* follows the path enumerated.
C20_LastSegment ==
    \A j \in 1..Len(ghost), h \in Range(searchPath) :
        InEnumerate /\ ghost[j].dh = h.id
        => /\ ghost[j].name # <<>>
           /\ \A k \in 1..Len(ghost[j].name) : ghost[j].name[k] # SLASH
           /\ \/ \E q \in DOMAIN Tree(h.dirName) :
                    Segments(q)[Len(Segments(q))] = ghost[j].name
              \/ \E k \in 1..Len(MountSegments(h)) :
                    MountSegments(h)[k] = ghost[j].name

\* C20: in a call of PHYSFS_enumerate, once the callback has answered STOP
\* or ERROR it is not invoked again, neither for a later entry of the mount
\* nor for a later mount; after STOP the call returns 1, after ERROR it
\* returns 0 with the error code APP_CALLBACK; every invocation receives one
\* path segment, the last one of an entry.
C20_StopEndsEnumeration ==
    /\ [](C20_OneStop /\ C20_Returns /\ C20_LastSegment)
    /\ [][C20_NeverAgainStep]_vars

\* Enumerating the root with "B" ahead of another mount has returned 0: the
\* callback answered OK for the first entry of "B" and ERROR for the second,
\* and the third entry and the other mount were left.
C20_Witness ==
    /\ pc["t1"].at = "idle"
    /\ last.op = "enumerate"
    /\ last.path = <<>>
    /\ last.ret = 0
    /\ Len(searchPath) = 2
    /\ searchPath[1].dirName = "B"
    /\ searchPath[1].mountPoint = <<>>
    /\ Len(ghost) = 2
    /\ ghost[1].answer = ENUM_OK
    /\ ghost[2].answer = ENUM_ERROR
    /\ errCode["t1"] = ERR_APP_CALLBACK



-----------------------------------------------------------------------------
(* The per-thread error state, physfs.cpp 528-565 and 604-641.  In SpecErr   *)
(* errCode is the error state of the library: the heap of ErrState records   *)
(* by address, each [tid, code, next, freed], the head errorStates of the    *)
(* list (0 is nullptr), whether errorLock exists, and initialized.  A        *)
(* section that holds errorLock is one step.  pc[t] holds the locals err     *)
(* and errcode of the call thread t is in.  ghost.set[t] is the code that    *)
(* thread t set last, PHYSFS_ERR_OK once it has fetched it.                  *)

\* No more ErrState records are allocated than this.
MaxErrStates == 2

ErrCodes == {ERR_OK, ERR_NOT_FOUND, ERR_INVALID_ARGUMENT}

ErrIdle == [at |-> "idle", err |-> 0, errcode |-> ERR_OK]

\* The records of the list, from the record at address i on.
RECURSIVE ErrList(_, _)
ErrList(heap, i) == IF i = 0 THEN <<>> ELSE <<i>> \o ErrList(heap, heap[i].next)

\* findErrorForCurrentThread, physfs.cpp 528-551: the address of the first
\* record of the list whose tid is t, 0 when there is none.
findErrorForCurrentThread(e, t) ==
    LET Found(hits) ==
            IF hits = <<>> THEN 0 ELSE hits[1]
    IN  Found(SelectSeq(ErrList(e.heap, e.errorStates), LAMBDA i : e.heap[i].tid = t))

\* The state after PHYSFS_init: no thread has an error record.
ErrInit ==
    /\ errCode = [heap |-> <<>>, errorStates |-> 0, errorLock |-> TRUE,
                  initialized |-> TRUE]
    /\ pc = [t \in Threads |-> ErrIdle]
    /\ last = [op |-> "none", t |-> NoThread, ret |-> ERR_OK, set |-> ERR_OK]
    /\ ghost = [set |-> [t \in Threads |-> ERR_OK], deinit |-> FALSE]
    /\ searchPath = <<>> /\ writeDir = NoDir
    /\ openReadList = <<>> /\ openWriteList = <<>>
    /\ longest_root = 0 /\ allowSymLinks = FALSE /\ stateLock = NoThread
    /\ data = <<>> /\ ios = <<>> /\ files = <<>> /\ reply = <<>>
    /\ SanIdle

ErrKeep == <<searchPath, writeDir, openReadList, openWriteList, longest_root,
             allowSymLinks, stateLock, sanVars, data, ios, files, reply>>

\* PHYSFS_setErrorCode, physfs.cpp 604-612, which is also how a failing
\* operation sets its code: nothing for PHYSFS_ERR_OK; otherwise look for the
\* record of the thread and allocate one when there is none.
setErrorCode(t, errcode) ==
    /\ pc[t].at = "idle"
    /\ LET Found(err) ==
               IF err # 0
               THEN /\ pc' = [pc EXCEPT ![t] = [at |-> "store", err |-> err,
                                                errcode |-> errcode]]
                    /\ UNCHANGED errCode
               ELSE /\ Len(errCode.heap) < MaxErrStates
                    /\ errCode' = [errCode EXCEPT !.heap =
                                      Append(@, [tid |-> t, code |-> ERR_OK,
                                                 next |-> 0, freed |-> FALSE])]
                    /\ pc' = [pc EXCEPT ![t] = [at |-> "link",
                                                err |-> Len(errCode.heap) + 1,
                                                errcode |-> errcode]]
       IN  IF errcode = ERR_OK
           THEN /\ last' = [op |-> "setErrorCode", t |-> t, ret |-> errcode,
                            set |-> ghost.set[t]]
                /\ UNCHANGED <<pc, errCode>>
           ELSE /\ Found(findErrorForCurrentThread(errCode, t))
                /\ UNCHANGED last
    /\ UNCHANGED <<ghost, ErrKeep>>

\* Lines 614-621: link the new record at the head of the list.  With
\* errorLock the two assignments are one section; without it (the library
\* is not initialized) they are two steps.
setErrorCodeLink(t) ==
    /\ pc[t].at = "link"
    /\ errCode' = [errCode EXCEPT
                      !.heap[pc[t].err].next = errCode.errorStates,
                      !.errorStates = IF errCode.errorLock THEN pc[t].err ELSE @]
    /\ pc' = [pc EXCEPT ![t].at = IF errCode.errorLock THEN "store" ELSE "head"]
    /\ UNCHANGED <<last, ghost, ErrKeep>>

\* Line 618 without errorLock: errorStates = err.
setErrorCodeHead(t) ==
    /\ pc[t].at = "head"
    /\ errCode' = [errCode EXCEPT !.errorStates = pc[t].err]
    /\ pc' = [pc EXCEPT ![t].at = "store"]
    /\ UNCHANGED <<last, ghost, ErrKeep>>

\* Line 624: err->code = errcode.  A record that freeErrorStates has freed
\* in the meantime is written to after its free, which changes nothing the
\* list holds.
setErrorCodeStore(t) ==
    /\ pc[t].at = "store"
    /\ errCode' = IF errCode.heap[pc[t].err].freed THEN errCode
                  ELSE [errCode EXCEPT !.heap[pc[t].err].code = pc[t].errcode]
    /\ last' = [op |-> "setErrorCode", t |-> t, ret |-> pc[t].errcode,
                set |-> ghost.set[t]]
    /\ ghost' = [ghost EXCEPT !.set[t] = pc[t].errcode]
    /\ pc' = [pc EXCEPT ![t] = ErrIdle]
    /\ UNCHANGED ErrKeep

\* PHYSFS_getLastErrorCode, physfs.cpp 559-560: look for the record of the
\* thread; without one the call returns PHYSFS_ERR_OK.  last.set is the code
\* the thread had set.
getLastErrorCode(t) ==
    /\ pc[t].at = "idle"
    /\ LET Found(err) ==
               IF err # 0
               THEN /\ pc' = [pc EXCEPT ![t] = [at |-> "take", err |-> err,
                                                errcode |-> ERR_OK]]
                    /\ UNCHANGED <<last, ghost>>
               ELSE /\ last' = [op |-> "getLastErrorCode", t |-> t, ret |-> ERR_OK,
                                set |-> ghost.set[t]]
                    /\ ghost' = [ghost EXCEPT !.set[t] = ERR_OK]
                    /\ UNCHANGED pc
       IN  Found(findErrorForCurrentThread(errCode, t))
    /\ UNCHANGED <<errCode, ErrKeep>>

\* Lines 561-564: return err->code and reset it.  From a record that
\* freeErrorStates has freed in the meantime any code may be read.
getLastErrorCodeTake(t, garbage) ==
    /\ pc[t].at = "take"
    /\ LET freed == errCode.heap[pc[t].err].freed
       IN  /\ ~freed => garbage = errCode.heap[pc[t].err].code
           /\ errCode' = IF freed THEN errCode
                         ELSE [errCode EXCEPT !.heap[pc[t].err].code = ERR_OK]
           /\ last' = [op |-> "getLastErrorCode", t |-> t, ret |-> garbage,
                       set |-> ghost.set[t]]
    /\ ghost' = [ghost EXCEPT !.set[t] = ERR_OK]
    /\ pc' = [pc EXCEPT ![t] = ErrIdle]
    /\ UNCHANGED ErrKeep

\* freeErrorStates, physfs.cpp 633-641, as doDeinit calls it (1143) without
\* errorLock, and the rest of doDeinit (1172-1180): every record of the list
\* is freed, the list is empty, errorLock is destroyed.
freeErrorStates(t) ==
    /\ pc[t].at = "idle"
    /\ errCode.initialized
    /\ LET listed == Range(ErrList(errCode.heap, errCode.errorStates))
       IN  errCode' = [heap |-> [i \in DOMAIN errCode.heap |->
                                    IF i \in listed
                                    THEN [errCode.heap[i] EXCEPT !.freed = TRUE]
                                    ELSE errCode.heap[i]],
                       errorStates |-> 0, errorLock |-> FALSE,
                       initialized |-> FALSE]
    /\ last' = [op |-> "deinit", t |-> t, ret |-> ERR_OK, set |-> ghost.set[t]]
    /\ ghost' = [ghost EXCEPT !.deinit = TRUE]
    /\ UNCHANGED <<pc, ErrKeep>>

\* PHYSFS_init, physfs.cpp 1015-1022 with initializeMutexes (940-962):
\* errorLock exists again.
initializeMutexes(t) ==
    /\ pc[t].at = "idle"
    /\ ~errCode.initialized
    /\ errCode' = [errCode EXCEPT !.errorLock = TRUE, !.initialized = TRUE]
    /\ last' = [op |-> "init", t |-> t, ret |-> ERR_OK, set |-> ghost.set[t]]
    /\ UNCHANGED <<pc, ghost, ErrKeep>>

ErrSet == \E t \in Threads, errcode \in ErrCodes : setErrorCode(t, errcode)
ErrLink == \E t \in Threads : setErrorCodeLink(t)
ErrHead == \E t \in Threads : setErrorCodeHead(t)
ErrStore == \E t \in Threads : setErrorCodeStore(t)
ErrGet == \E t \in Threads : getLastErrorCode(t)
ErrTake == \E t \in Threads, garbage \in ErrCodes : getLastErrorCodeTake(t, garbage)
ErrDeinit == \E t \in Threads : freeErrorStates(t)
ErrReinit == \E t \in Threads : initializeMutexes(t)

ErrNext ==
    \/ ErrSet
    \/ ErrLink
    \/ ErrHead
    \/ ErrStore
    \/ ErrGet
    \/ ErrTake
    \/ ErrDeinit
    \/ ErrReinit

SpecErr == ErrInit /\ [][ErrNext]_vars

\* PHYSFS_getLastErrorCode returns the code its thread set last.
C21_ReturnsOwnCode == last.op = "getLastErrorCode" => last.ret = last.set

\* No two records of the list have the same thread id.
C21_OneRecordPerThread ==
    \A t \in Threads :
        Cardinality({ i \in Range(ErrList(errCode.heap, errCode.errorStates)) :
                        errCode.heap[i].tid = t }) <= 1

\* C21: in any interleaving PHYSFS_getLastErrorCode on thread T returns the
\* code that T itself set last, by a failing operation or by
\* PHYSFS_setErrorCode, and resets it, so that the next call on T returns
\* PHYSFS_ERR_OK; PHYSFS_setErrorCode(PHYSFS_ERR_OK) changes nothing; the
\* list holds at most one record for a thread.
C21_OwnErrorCode ==
    /\ C21_ReturnsOwnCode
    /\ C21_OneRecordPerThread
    /\ last.op = "setErrorCode" /\ last.ret = ERR_OK => last.set = ghost.set[last.t]

\* The same while no PHYSFS_deinit has been called.
C21_ButDeinit == ~ghost.deinit => C21_OwnErrorCode



-----------------------------------------------------------------------------
(* The directory tree of an archive, physfs_tree.cpp.  In SpecTree data is   *)
(* the __PHYSFS_DirTree: the entries by address, each [name, hashnext,       *)
(* children, sibling, isdir] with 0 for nullptr and the root at address 1,   *)
(* the heads of the hash buckets, and the two flags.  A name is a sequence   *)
(* of characters.  reply is the last call with what it returned,             *)
(* ghost.seen[d] what the last enumeration of directory d yielded since      *)
(* the last entry was added, and ghost.step[d] is 1 once a find has moved    *)
(* an entry in its bucket after that enumeration and 2 once d has been       *)
(* enumerated again after that.                                              *)

\* hashBuckets, physfs_tree.cpp 26.
hashBuckets == 64

\* The character codes of the names of the model.
CharCode(c) ==
    CASE c = "a" -> 97
      [] c = "A" -> 65
      [] c = "b" -> 98
      [] c = "!" -> 33
      [] c = "/" -> 47
      [] c = "g" -> 103
      [] c = "l" -> 108
      [] c = "m" -> 109
      [] c = "x" -> 120

\* PHYSFS_caseFold of a character, and the folding of 'A' to 'Z' that
\* __PHYSFS_hashStringCaseFoldUSAscii does (physfs.cpp 1243-1244).
FoldChar(c) == IF c = "A" THEN "a" ELSE c

FoldName(name) == [k \in 1..Len(name) |-> FoldChar(name[k])]

\* a ^ b on the low bits of the two numbers, bit by bit.
RECURSIVE XorBits(_, _, _)
XorBits(x, y, bits) ==
    IF bits = 0 THEN 0
    ELSE ((x + y) % 2) + 2 * XorBits(x \div 2, y \div 2, bits - 1)

\* hash = ((hash << 5) + hash) ^ ch, physfs.cpp 1212, 1230 and 1245, modulo
\* hashBuckets: a power of two that divides 2^32, so that the low bits of
\* the 32-bit hash are the hash of the low bits.
HashStep(hash, ch) == XorBits((hash * 33) % hashBuckets, ch % hashBuckets, 6)

\* __PHYSFS_hashString, physfs.cpp 1206-1216, modulo hashBuckets.
RECURSIVE hashString(_, _, _)
hashString(name, k, hash) ==
    IF k > Len(name) THEN hash
    ELSE hashString(name, k + 1, HashStep(hash, CharCode(name[k])))

\* __PHYSFS_hashStringCaseFold, physfs.cpp 1219-1234, modulo hashBuckets:
\* the four bytes of every folded code point, which for the characters of
\* the model are the code and three zero bytes.
RECURSIVE hashStringCaseFold(_, _, _)
hashStringCaseFold(name, k, hash) ==
    IF k > Len(name) THEN hash
    ELSE hashStringCaseFold(
             name, k + 1,
             HashStep(HashStep(HashStep(HashStep(hash, CharCode(FoldChar(name[k]))),
                                        0), 0), 0))

\* A hash of a tree that ignores case which does not fold.
hashPathName_Unfolded(dt, name) == hashString(name, 1, 5381 % hashBuckets)

\* hashPathName, physfs_tree.cpp 38-41.
hashPathName(dt, name) ==
    IF dt.case_sensitive THEN hashString(name, 1, 5381 % hashBuckets)
    ELSE IF dt.only_usascii THEN hashString(FoldName(name), 1, 5381 % hashBuckets)
    ELSE hashStringCaseFold(name, 1, 5381 % hashBuckets)

\* strcmp or PHYSFS_utf8stricmp of the two names is 0 (physfs_tree.cpp
\* 102-104).
SameName(dt, a, b) == IF dt.case_sensitive THEN a = b ELSE FoldName(a) = FoldName(b)

\* A splice that also cuts the entry off its siblings.
MoveToFront_Unlinked(dt, hashval, prev, retval) ==
    [dt EXCEPT !.entries[prev].hashnext = dt.entries[retval].hashnext,
               !.entries[retval].hashnext = dt.hash[hashval],
               !.entries[retval].sibling = 0,
               !.hash[hashval] = retval]

\* Lines 109-111 of __PHYSFS_DirTreeFind: move the entry found to the front
\* of its bucket.
MoveToFront(dt, hashval, prev, retval) ==
    [dt EXCEPT !.entries[prev].hashnext = dt.entries[retval].hashnext,
               !.entries[retval].hashnext = dt.hash[hashval],
               !.hash[hashval] = retval]

\* The loop of __PHYSFS_DirTreeFind, physfs_tree.cpp 101-118, from the entry
\* retval on: [dt, ret, err].
RECURSIVE DirTreeFindLoop(_, _, _, _, _)
DirTreeFindLoop(dt, path, hashval, prev, retval) ==
    IF retval = 0 THEN [dt |-> dt, ret |-> 0, err |-> ERR_NOT_FOUND]
    ELSE IF SameName(dt, dt.entries[retval].name, path)
    THEN [dt |-> IF prev # 0 THEN MoveToFront(dt, hashval, prev, retval) ELSE dt,
          ret |-> retval, err |-> ERR_OK]
    ELSE DirTreeFindLoop(dt, path, hashval, retval, dt.entries[retval].hashnext)

\* __PHYSFS_DirTreeFind, physfs_tree.cpp 92-121: [dt, ret, err].
DirTreeFind(dt, path) ==
    IF path = <<>> THEN [dt |-> dt, ret |-> 1, err |-> ERR_OK]
    ELSE DirTreeFindLoop(dt, path, hashPathName(dt, path), 0,
                         dt.hash[hashPathName(dt, path)])

\* strrchr(name, '/'): the position of the last '/', 0 when there is none.
RECURSIVE StrRChrSlash(_, _)
StrRChrSlash(name, k) ==
    IF k = 0 THEN 0 ELSE IF name[k] = SLASH THEN k ELSE StrRChrSlash(name, k - 1)

\* A link that leaves the children of the parent as they were.
DirTreeLink_Unowned(dt, name, isdir, parent) ==
    LET retval == Len(dt.entries) + 1
        hashval == hashPathName(dt, name)
    IN  [dt |-> [dt EXCEPT
                    !.entries = Append(@, [name |-> name, hashnext |-> dt.hash[hashval],
                                           children |-> 0,
                                           sibling |-> dt.entries[parent].children,
                                           isdir |-> isdir]),
                    !.hash[hashval] = retval],
         ret |-> retval, err |-> ERR_OK]

\* Lines 77-88 of __PHYSFS_DirTreeAdd: the new entry is linked at the head
\* of its bucket and at the head of the children of parent.
DirTreeLink(dt, name, isdir, parent) ==
    LET retval == Len(dt.entries) + 1
        hashval == hashPathName(dt, name)
    IN  [dt |-> [dt EXCEPT
                    !.entries = Append([@ EXCEPT ![parent].children = retval],
                                       [name |-> name, hashnext |-> dt.hash[hashval],
                                        children |-> 0,
                                        sibling |-> dt.entries[parent].children,
                                        isdir |-> isdir]),
                    !.hash[hashval] = retval],
         ret |-> retval, err |-> ERR_OK]

\* __PHYSFS_DirTreeAdd, physfs_tree.cpp 66-89, with addAncestors (44-64):
\* [dt, ret, err].
RECURSIVE DirTreeAdd(_, _, _)
DirTreeAdd(dt, name, isdir) ==
    LET LinkUnder(anc) ==
            IF anc.ret = 0 THEN anc ELSE DirTreeLink(anc.dt, name, isdir, anc.ret)
        Ancestor(up) ==
            IF up.ret # 0
            THEN IF up.dt.entries[up.ret].isdir THEN up
                 ELSE [dt |-> up.dt, ret |-> 0, err |-> "CORRUPT"]
            ELSE DirTreeAdd(up.dt, SubSeq(name, 1, StrRChrSlash(name, Len(name)) - 1),
                            TRUE)
        addAncestors(d) ==
            IF StrRChrSlash(name, Len(name)) = 0
            THEN [dt |-> d, ret |-> 1, err |-> ERR_OK]
            ELSE Ancestor(DirTreeFind(d, SubSeq(name, 1,
                                                StrRChrSlash(name, Len(name)) - 1)))
        Found(f) == IF f.ret # 0 THEN f ELSE LinkUnder(addAncestors(f.dt))
    IN  Found(DirTreeFind(dt, name))

\* The part of a name after its last '/'.
LastSegment(name) == SubSeq(name, StrRChrSlash(name, Len(name)) + 1, Len(name))

\* The names __PHYSFS_DirTreeEnumerate hands to a callback that answers
\* PHYSFS_ENUM_OK, from the entry on (physfs_tree.cpp 134-140).
RECURSIVE DirTreeSiblings(_, _)
DirTreeSiblings(dt, entry) ==
    IF entry = 0 THEN <<>>
    ELSE <<LastSegment(dt.entries[entry].name)>>
             \o DirTreeSiblings(dt, dt.entries[entry].sibling)

\* __PHYSFS_DirTreeEnumerate, physfs_tree.cpp 123-143: [dt, ret, names, err].
DirTreeEnumerate(dt, dname) ==
    LET Found(f) ==
            IF f.ret = 0
            THEN [dt |-> f.dt, ret |-> ENUM_ERROR, names |-> <<>>, err |-> ERR_NOT_FOUND]
            ELSE [dt |-> f.dt, ret |-> ENUM_OK,
                  names |-> DirTreeSiblings(f.dt, f.dt.entries[f.ret].children),
                  err |-> ERR_OK]
    IN  Found(DirTreeFind(dt, dname))

-----------------------------------------------------------------------------
(* SpecTree: a tree of any of the three kinds, to which the entries below    *)
(* are added in any order, with finds and enumerations in between.           *)

TreeNames ==
    {<<"a">>, <<"A">>, <<"!">>, <<"a", "/", "b">>, <<"A", "/", "b">>,
     <<"a", "/", "b", "/", "b">>}
TreeEntries == {<<<<"a">>, TRUE>>, <<<<"a">>, FALSE>>, <<<<"A">>, TRUE>>,
                <<<<"!">>, FALSE>>, <<<<"a", "/", "b">>, FALSE>>,
                <<<<"A", "/", "b">>, TRUE>>,
                <<<<"a", "/", "b", "/", "b">>, FALSE>>}
TreeDirs == {<<>>, <<"a">>}

NotSeen == <<"not seen">>

\* __PHYSFS_DirTreeInit, physfs_tree.cpp 11-36.
DirTreeInit(case_sensitive, only_usascii) ==
    [entries |-> <<[name |-> <<"/">>, hashnext |-> 0, children |-> 0,
                    sibling |-> 0, isdir |-> TRUE]>>,
     hash |-> [b \in 0..(hashBuckets - 1) |-> 0],
     case_sensitive |-> case_sensitive, only_usascii |-> only_usascii]

TreeUnseen == [seen |-> [d \in TreeDirs |-> NotSeen], step |-> [d \in TreeDirs |-> 0]]

\* The steps of the directories listed, after a call that left the tree as dt.
TreeMoved(dt) ==
    [d \in TreeDirs |->
        IF ghost.seen[d] # NotSeen /\ ghost.step[d] = 0 /\ dt.hash # data.hash
        THEN 1 ELSE ghost.step[d]]

TreeInit ==
    /\ \E kind \in {<<TRUE, FALSE>>, <<FALSE, TRUE>>, <<FALSE, FALSE>>} :
          data = DirTreeInit(kind[1], kind[2])
    /\ reply = [op |-> "none", name |-> <<>>, ret |-> 0, names |-> <<>>]
    /\ ghost = TreeUnseen
    /\ ios = <<>> /\ files = <<>>
    /\ EngInit
    /\ SanIdle

TreeKeep == <<engVars, sanVars, ios, files>>

TreeAdd(name, isdir) ==
    /\ LET Added(r) ==
               /\ data' = r.dt
               /\ reply' = [op |-> "add", name |-> name, ret |-> r.ret, names |-> <<>>,
                            isdir |-> isdir, err |-> r.err]
               /\ ghost' = IF Len(r.dt.entries) = Len(data.entries)
                           THEN [ghost EXCEPT !.step = TreeMoved(r.dt)]
                           ELSE TreeUnseen
       IN  Added(DirTreeAdd(data, name, isdir))
    /\ UNCHANGED TreeKeep

\* __PHYSFS_DirTreeFind, as UNPK_stat and UNPK_openRead call it.
TreeFind(path) ==
    /\ LET Found(r) ==
               /\ data' = r.dt
               /\ reply' = [op |-> "find", name |-> path, ret |-> r.ret, names |-> <<>>]
               /\ ghost' = [ghost EXCEPT !.step = TreeMoved(r.dt)]
       IN  Found(DirTreeFind(data, path))
    /\ UNCHANGED TreeKeep

TreeEnumerate(dname) ==
    /\ LET Listed(r) ==
               /\ data' = r.dt
               /\ reply' = [op |-> "enumerate", name |-> dname,
                            ret |-> IF r.ret = ENUM_OK THEN 1 ELSE 0, names |-> r.names]
               /\ ghost' = IF r.ret = ENUM_OK
                           THEN [seen |-> [ghost.seen EXCEPT ![dname] = r.names],
                                 step |-> [TreeMoved(r.dt) EXCEPT
                                              ![dname] = IF ghost.step[dname] = 0
                                                         THEN 0 ELSE 2]]
                           ELSE [ghost EXCEPT !.step = TreeMoved(r.dt)]
       IN  Listed(DirTreeEnumerate(data, dname))
    /\ UNCHANGED TreeKeep

TreeAdds == \E entry \in TreeEntries : TreeAdd(entry[1], entry[2])
TreeFinds == \E path \in TreeNames \cup {<<>>} : TreeFind(path)
TreeEnumerates == \E dname \in TreeDirs : TreeEnumerate(dname)

TreeNext ==
    \/ TreeAdds
    \/ TreeFinds
    \/ TreeEnumerates

SpecTree == TreeInit /\ [][TreeNext]_vars



-----------------------------------------------------------------------------
(* C22: the links of the tree.                                               *)

\* The entries reached from entry along hashnext, at most fuel of them.
RECURSIVE BucketChain(_, _, _)
BucketChain(dt, entry, fuel) ==
    IF entry = 0 \/ fuel = 0 THEN <<>>
    ELSE <<entry>> \o BucketChain(dt, dt.entries[entry].hashnext, fuel - 1)

\* The entries reached from entry along sibling, at most fuel of them.
RECURSIVE ChildChain(_, _, _)
ChildChain(dt, entry, fuel) ==
    IF entry = 0 \/ fuel = 0 THEN <<>>
    ELSE <<entry>> \o ChildChain(dt, dt.entries[entry].sibling, fuel - 1)

\* One more than the number of entries: a chain that long has a cycle.
ChainFuel(dt) == Len(dt.entries) + 1

Bucket(dt, b) == BucketChain(dt, dt.hash[b], ChainFuel(dt))
ChildrenOf(dt, p) == ChildChain(dt, dt.entries[p].children, ChainFuel(dt))

Occurrences(seq, e) == Cardinality({k \in 1..Len(seq) : seq[k] = e})

\* The name of the directory that holds name, empty for the root.
ParentName(name) == SubSeq(name, 1, StrRChrSlash(name, Len(name)) - 1)

\* The entry that is the parent of entry e by its name.
IsParentOf(dt, p, e) ==
    IF StrRChrSlash(dt.entries[e].name, Len(dt.entries[e].name)) = 0 THEN p = 1
    ELSE p # 1 /\ SameName(dt, dt.entries[p].name, ParentName(dt.entries[e].name))

\* The names that differ from name by case alone, where the tree ignores
\* case.
CaseVariants(dt, name) ==
    {v \in TreeNames : v = name \/ (~dt.case_sensitive /\ FoldName(v) = FoldName(name))}

\* The buckets and the directories that hold anything.
UsedBuckets(dt) == {b \in 0..(hashBuckets - 1) : dt.hash[b] # 0}
UsedDirs(dt) == {p \in 1..Len(dt.entries) : dt.entries[p].children # 0}

\* Every entry but the root is once in the bucket of its name, and a bucket
\* holds nothing but entries of its hash.
C22_InOneBucket ==
    /\ \A e \in 2..Len(data.entries) :
          LET Once(chain) == Occurrences(chain, e) = 1
          IN  Once(Bucket(data, hashPathName(data, data.entries[e].name)))
    /\ \A b \in UsedBuckets(data) :
          LET Own(chain) ==
                  \A k \in 1..Len(chain) :
                      chain[k] # 1 /\ hashPathName(data, data.entries[chain[k]].name) = b
          IN  Own(Bucket(data, b))

\* Every entry but the root is once among the children of a parent of its
\* name, and a directory holds nothing but its children.
C22_UnderItsParent ==
    /\ \A e \in 2..Len(data.entries) :
          \E p \in UsedDirs(data) :
              /\ IsParentOf(data, p, e)
              /\ LET Once(chain) == Occurrences(chain, e) = 1
                 IN  Once(ChildrenOf(data, p))
    /\ \A p \in UsedDirs(data) :
          LET Own(chain) ==
                  \A k \in 1..Len(chain) : chain[k] # 1 /\ IsParentOf(data, p, chain[k])
          IN  Own(ChildrenOf(data, p))

C22_RootApart ==
    /\ data.entries[1].sibling = 0
    /\ \A b \in UsedBuckets(data) : Occurrences(Bucket(data, b), 1) = 0
    /\ \A p \in UsedDirs(data) : Occurrences(ChildrenOf(data, p), 1) = 0

C22_FindsEntry ==
    /\ DirTreeFind(data, <<>>).ret = 1
    /\ \A e \in 2..Len(data.entries) :
          \A v \in CaseVariants(data, data.entries[e].name) :
              DirTreeFind(data, v).ret = e

\* C22: after any sequence of DirTreeAdd and DirTreeFind every entry but the
\* root is linked exactly once in exactly one bucket, the one of the hash of
\* its name modulo 64, and exactly once in the child list of its parent; the
\* root is in no bucket and has no sibling; DirTreeFind of the name of an
\* entry, and in a tree that ignores case of every case variant of it,
\* returns that entry, and DirTreeFind of the empty path returns the root.
C22_TreeLinks ==
    /\ C22_InOneBucket
    /\ C22_UnderItsParent
    /\ C22_RootApart
    /\ C22_FindsEntry

\* A tree that ignores case, with two entries in one bucket, in which a find
\* of a case variant has just moved the entry it found to the front.
C22_Witness ==
    /\ ~data.case_sensitive
    /\ reply.op = "find" /\ reply.ret > 1
    /\ reply.name # data.entries[reply.ret].name
    /\ data.hash[hashPathName(data, reply.name)] = reply.ret
    /\ data.entries[reply.ret].hashnext # 0
    /\ data.entries[reply.ret].hashnext < reply.ret
    /\ Len(data.entries) >= 4



-----------------------------------------------------------------------------
(* C26: what a find and an enumeration leave alone.                          *)

\* The entries of bucket b, in no order.
BucketMembers(dt, b) ==
    LET Members(chain) == {chain[k] : k \in 1..Len(chain)} IN Members(Bucket(dt, b))

\* A call of __PHYSFS_DirTreeFind or of __PHYSFS_DirTreeEnumerate changes no
\* name, isdir, children or sibling and no bucket's membership.
C26_FrameStep ==
    reply'.op \in {"find", "enumerate"} =>
        /\ Len(data'.entries) = Len(data.entries)
        /\ \A e \in 1..Len(data.entries) :
              /\ data'.entries[e].name = data.entries[e].name
              /\ data'.entries[e].isdir = data.entries[e].isdir
              /\ data'.entries[e].children = data.entries[e].children
              /\ data'.entries[e].sibling = data.entries[e].sibling
        /\ \A b \in UsedBuckets(data) \cup UsedBuckets(data') :
              BucketMembers(data', b) = BucketMembers(data, b)

\* A directory enumerated again with no entry added in between yields what
\* it yielded before.
C26_SameListingStep ==
    \A d \in TreeDirs :
        (ghost.seen[d] # NotSeen /\ ghost'.seen[d] # NotSeen) =>
            ghost'.seen[d] = ghost.seen[d]

\* C26: __PHYSFS_DirTreeFind, its move-to-front splice included, and
\* __PHYSFS_DirTreeEnumerate change no entry's name, isdir flag, children
\* link or sibling link and no bucket's membership, only the order inside one
\* bucket, so that enumerating a directory twice, with any number of finds in
\* between and no add, yields the same names in the same order.
C26_FindAndEnumerateFrame == [][C26_FrameStep /\ C26_SameListingStep]_vars

\* A directory of two entries has been enumerated, a find has then moved an
\* entry to the front of its bucket, and the directory has been enumerated
\* again.
C26_Witness ==
    /\ reply.op = "enumerate" /\ reply.ret = 1
    /\ Len(reply.names) >= 2
    /\ ghost.step[reply.name] = 2
    /\ ghost.seen[reply.name] = reply.names



-----------------------------------------------------------------------------
(* The GRP archiver, archivers/physfs_archiver_grp.cpp, on the unpacked      *)
(* archive of physfs_archiver_unpacked.cpp.  A number that can pass 2^31 is  *)
(* a pair [hi, lo] that stands for hi * 2^16 + lo, with lo < 2^16.  In       *)
(* SpecGrp ghost.archive is the file: its signature and the directory that   *)
(* follows it, one [name, size] for every entry, the name as the 12 bytes    *)
(* hold it before the padding; data is the bytes of the file that the model  *)
(* holds, the first ones; ios[1] is the stream of the file; files is the     *)
(* UNPKinfo GRP_openArchive returned, [tree, io, entries], entries[e] the    *)
(* startPos and size of the UNPKentry whose tree part is tree.entries[e];    *)
(* ghost.io is the stream of the entry ghost.entry that is being read and    *)
(* ghost.got the bytes read from it so far; reply is the last call.          *)

Half == 65536

NumOf(k) == [hi |-> k \div Half, lo |-> k % Half]

NumPlus(a, b) ==
    [hi |-> a.hi + b.hi + ((a.lo + b.lo) \div Half), lo |-> (a.lo + b.lo) % Half]

\* The value a PHYSFS_uint32 holds of a number.
Wrap32(n) == [hi |-> n.hi % Half, lo |-> n.lo]

\* strchr(name, ' ') and *ptr = '\0', archivers/physfs_archiver_grp.cpp
\* 45-47: the name up to its first space.
RECURSIVE TrimName(_, _)
TrimName(name, k) ==
    IF k > Len(name) THEN name
    ELSE IF name[k] = " " THEN SubSeq(name, 1, k - 1)
    ELSE TrimName(name, k + 1)

NoInfo == [tree |-> <<>>, io |-> 0, entries |-> <<>>]

\* UNPK_openArchive, archivers/physfs_archiver_unpacked.cpp 206-211: the
\* entry of the root is zeroed (physfs_tree.cpp 23).
UNPK_openArchive(io, case_sensitive, only_usascii) ==
    [tree |-> DirTreeInit(case_sensitive, only_usascii), io |-> io,
     entries |-> <<[startPos |-> NumOf(0), size |-> NumOf(0)]>>]

\* UNPK_addEntry, archivers/physfs_archiver_unpacked.cpp 190-204: [info,
\* ret, err].  The entries the tree made on the way, the ancestors, are
\* zeroed directories; the entry returned, new or not, takes pos and len.
UNPK_addEntry(info, name, isdir, pos, len) ==
    LET Zeroed(dt) ==
            [e \in 1..Len(dt.entries) |->
                IF e <= Len(info.entries) THEN info.entries[e]
                ELSE [startPos |-> NumOf(0), size |-> NumOf(0)]]
        Added(r) ==
            IF r.ret = 0 THEN [info |-> [info EXCEPT !.tree = r.dt], ret |-> 0,
                               err |-> r.err]
            ELSE [info |-> [info EXCEPT
                               !.tree = r.dt,
                               !.entries = [Zeroed(r.dt) EXCEPT
                                   ![r.ret] = [startPos |-> IF isdir THEN NumOf(0) ELSE pos,
                                               size |-> IF isdir THEN NumOf(0) ELSE len]]],
                  ret |-> r.ret, err |-> ERR_OK]
    IN  Added(DirTreeAdd(info.tree, name, isdir))

\* The loop of grpLoadEntries, archivers/physfs_archiver_grp.cpp 36-53,
\* from entry i of the directory on; pos is a PHYSFS_uint32.
RECURSIVE grpLoadEntries(_, _, _, _)
grpLoadEntries(dir, i, pos, r) ==
    IF i > Len(dir) \/ r.ret = 0 THEN r
    ELSE grpLoadEntries(
             dir, i + 1, Wrap32(NumPlus(pos, dir[i].size)),
             UNPK_addEntry(r.info, TrimName(dir[i].name, 1), FALSE, pos, dir[i].size))

\* GRP_openArchive, archivers/physfs_archiver_grp.cpp 58-82: [info, ret,
\* claimed, err], ret 0 for nullptr.
GRP_openArchive(archive, io, forWriting) ==
    LET Loaded(r) ==
            IF r.ret = 0
            THEN [info |-> NoInfo, ret |-> 0, claimed |-> TRUE, err |-> r.err]
            ELSE [info |-> r.info, ret |-> 1, claimed |-> TRUE, err |-> ERR_OK]
    IN  IF forWriting
        THEN [info |-> NoInfo, ret |-> 0, claimed |-> FALSE, err |-> ERR_READ_ONLY]
        ELSE IF archive.sig # "KenSilverman"
        THEN [info |-> NoInfo, ret |-> 0, claimed |-> FALSE, err |-> ERR_UNSUPPORTED]
        ELSE Loaded(grpLoadEntries(
                        archive.dir, 1, Wrap32(NumOf(16 + 16 * Len(archive.dir))),
                        [info |-> UNPK_openArchive(io, FALSE, TRUE), ret |-> 1,
                         err |-> ERR_OK]))

\* UNPK_stat, archivers/physfs_archiver_unpacked.cpp 169-188, on the
\* UNPKinfo: [info, ret, filetype, filesize, err].
UNPK_statEntry(info, path) ==
    LET Found(f) ==
            IF f.ret = 0
            THEN [info |-> [info EXCEPT !.tree = f.dt], ret |-> 0, filetype |-> FT_OTHER,
                  filesize |-> NumOf(0), err |-> f.err]
            ELSE [info |-> [info EXCEPT !.tree = f.dt], ret |-> 1,
                  filetype |-> IF f.dt.entries[f.ret].isdir THEN FT_DIRECTORY
                               ELSE FT_REGULAR,
                  filesize |-> IF f.dt.entries[f.ret].isdir THEN NumOf(0)
                               ELSE info.entries[f.ret].size,
                  err |-> ERR_OK]
    IN  Found(DirTreeFind(info.tree, path))

-----------------------------------------------------------------------------
(* SpecGrp: a file of one or two entries is opened as a GRP archive; its     *)
(* entries are then looked at with stat and read to their end.               *)

\* 2^32 - 48: with one entry of that size ahead, the data of the second
\* entry of two starts at 2^32.
GrpHuge == [hi |-> Half - 1, lo |-> Half - 48]

GrpSizes == {NumOf(0), NumOf(1), NumOf(2), GrpHuge}
GrpNames == {<<"a">>, <<"A">>, <<"b">>, <<"a", " ", "b">>, <<"a", "/", "b">>}
GrpPaths == {<<"a">>, <<"A">>, <<"b">>, <<"a", "/", "b">>}
GrpDirEntries == [name : GrpNames, size : GrpSizes]
GrpArchives ==
    [sig : {"KenSilverman", "PACK"},
     dir : {<<e>> : e \in GrpDirEntries}
               \cup {<<d, e>> : d \in GrpDirEntries, e \in GrpDirEntries}]

\* The first bytes of the file, each told from its neighbours.
GrpBytes == [k \in 1..54 |-> k % 5]

GrpIdle == [archive |-> <<>>, io |-> 0, entry |-> 0, got |-> <<>>]

GrpInit ==
    /\ EngInit
    /\ SanIdle
    /\ data = GrpBytes
    /\ ios = <<MemoryIo(0, 1)>>
    /\ files = NoInfo
    /\ \E archive \in GrpArchives : ghost = [GrpIdle EXCEPT !.archive = archive]
    /\ reply = [op |-> "none"]

GrpKeep == <<engVars, sanVars, data>>

\* archiver->openArchive of the GRP archiver, as openDirectory calls it.
GrpOpenArchive(forWriting) ==
    /\ files = NoInfo
    /\ reply.op = "none"
    /\ LET Opened(r) ==
               /\ files' = r.info
               /\ ios' = IF r.ret = 0 THEN ios
                         ELSE [ios EXCEPT ![1].pos = 16 + 16 * Len(ghost.archive.dir)]
               /\ reply' = [op |-> "openArchive", ret |-> r.ret, claimed |-> r.claimed,
                            err |-> r.err]
       IN  Opened(GRP_openArchive(ghost.archive, 1, forWriting))
    /\ UNCHANGED <<ghost, GrpKeep>>

GrpStat(path) ==
    /\ files # NoInfo
    /\ LET Stat(r) ==
               /\ files' = r.info
               /\ reply' = [op |-> "stat", name |-> path, ret |-> r.ret,
                            filetype |-> r.filetype, filesize |-> r.filesize,
                            err |-> r.err]
       IN  Stat(UNPK_statEntry(files, path))
    /\ UNCHANGED <<ios, ghost, GrpKeep>>

\* UNPK_openRead, archivers/physfs_archiver_unpacked.cpp 136-151, of an
\* entry whose bytes are among those the model holds.
GrpOpenRead(path) ==
    /\ files # NoInfo
    /\ ghost.io = 0
    /\ LET Found(f) ==
               LET InReach(e) ==
                       /\ e.startPos.hi = 0 /\ e.size.hi = 0
                       /\ e.startPos.lo + e.size.lo <= Len(data)
                   Opened(r) ==
                       /\ ios' = r.w.ios
                       /\ ghost' = [ghost EXCEPT !.io = r.rc, !.entry = f.ret,
                                                 !.got = <<>>]
                       /\ reply' = [op |-> "openRead", name |-> path, ret |-> 1,
                                    err |-> ERR_OK]
                   Failed(err) ==
                       /\ reply' = [op |-> "openRead", name |-> path, ret |-> 0,
                                    err |-> err]
                       /\ UNCHANGED <<ios, ghost>>
               IN  /\ files' = [files EXCEPT !.tree = f.dt]
                   /\ IF f.ret = 0 THEN Failed(f.err)
                      ELSE IF f.dt.entries[f.ret].isdir THEN Failed(ERR_NOT_A_FILE)
                      ELSE /\ InReach(files.entries[f.ret])
                           /\ Opened(UNPK_openReadAt(
                                         World(data, ios, <<>>), files.io,
                                         [startPos |-> files.entries[f.ret].startPos.lo,
                                          size |-> files.entries[f.ret].size.lo]))
       IN  Found(DirTreeFind(files.tree, path))
    /\ UNCHANGED GrpKeep

\* io->read of the stream of the entry.
GrpRead(len, chunk) ==
    /\ ghost.io # 0
    /\ LET Read(r) ==
               /\ ios' = r.w.ios
               /\ ghost' = [ghost EXCEPT !.got = @ \o r.bytes]
               /\ reply' = [op |-> "read", len |-> len, ret |-> r.rc, err |-> r.err]
       IN  Read(UNPK_read(World(data, ios, <<>>), ghost.io, len, chunk))
    /\ UNCHANGED <<files, GrpKeep>>

\* io->destroy of the stream of the entry, UNPK_destroy
\* (archivers/physfs_archiver_unpacked.cpp 92-98): the stream and its
\* duplicate of the stream of the file are gone.
GrpDestroy ==
    /\ ghost.io # 0
    /\ ios' = SubSeq(io_destroy(World(data, ios, <<>>), ghost.io).ios, 1, 1)
    /\ ghost' = [ghost EXCEPT !.io = 0, !.entry = 0, !.got = <<>>]
    /\ reply' = [op |-> "destroy"]
    /\ UNCHANGED <<files, GrpKeep>>

GrpOpens == \E forWriting \in BOOLEAN : GrpOpenArchive(forWriting)
GrpStats == \E path \in GrpPaths : GrpStat(path)
GrpOpenReads == \E path \in GrpPaths : GrpOpenRead(path)
GrpReads == \E len \in 1..3, chunk \in Chunks : GrpRead(len, chunk)

GrpNext ==
    \/ GrpOpens
    \/ GrpStats
    \/ GrpOpenReads
    \/ GrpReads
    \/ GrpDestroy

SpecGrp == GrpInit /\ [][GrpNext]_vars



-----------------------------------------------------------------------------
(* C23: where the entries of a GRP archive are.                              *)

GrpDir == ghost.archive.dir

GrpName(i) == TrimName(GrpDir[i].name, 1)

\* 16 + 16 * count + the sizes of the entries ahead of entry i, the first
\* entry being entry 1.
RECURSIVE GrpStart(_, _)
GrpStart(dir, i) ==
    IF i = 1 THEN NumOf(16 + 16 * Len(dir))
    ELSE NumPlus(GrpStart(dir, i - 1), dir[i - 1].size)

\* The entry the tree holds for entry i of the directory, 0 if none.
GrpEntryOf(i) == DirTreeFind(files.tree, GrpName(i)).ret

GrpOpened == files # NoInfo

GrpDistinct ==
    \A i, j \in 1..Len(GrpDir) : i # j => GrpName(i) # GrpName(j)

\* The names differ by more than the case of letters, none is a directory
\* of another, and the data of every entry starts below 2^32.
GrpWithinFormat ==
    /\ \A i, j \in 1..Len(GrpDir) :
          i # j => /\ FoldName(GrpName(i)) # FoldName(GrpName(j))
                   /\ FoldName(GrpName(i)) # FoldName(ParentName(GrpName(j)))
    /\ \A i \in 1..Len(GrpDir) : GrpStart(GrpDir, i).hi < Half

C23_IndexedAt ==
    \A i \in 1..Len(GrpDir) :
        /\ GrpEntryOf(i) # 0
        /\ files.entries[GrpEntryOf(i)] =
               [startPos |-> GrpStart(GrpDir, i), size |-> GrpDir[i].size]

\* What has been read of an entry is the bytes of the file from its start
\* on, and all of them once a read has returned 0.
C23_ReadToEof ==
    \A i \in 1..Len(GrpDir) :
        (ghost.io # 0 /\ ghost.entry = GrpEntryOf(i)) =>
            /\ GrpStart(GrpDir, i).hi = 0
            /\ Len(ghost.got) <= GrpDir[i].size.lo
            /\ ghost.got = SubSeq(data, GrpStart(GrpDir, i).lo + 1,
                                  GrpStart(GrpDir, i).lo + Len(ghost.got))
            /\ (reply.op = "read" /\ reply.ret = 0) =>
                   Len(ghost.got) = GrpDir[i].size.lo

C23_StatOfEntry ==
    \A i \in 1..Len(GrpDir) :
        (reply.op = "stat" /\ reply.name = GrpName(i)) =>
            /\ reply.ret = 1
            /\ reply.filetype = FT_REGULAR
            /\ reply.filesize = GrpDir[i].size

\* C23: for a GRP archive with count entries of pairwise distinct names and
\* sizes s_0 .. s_(count-1), entry i is indexed with start_pos = 16 +
\* 16 * count + the sum of s_j for j < i and size = s_i; reading entry i from
\* open to EOF returns exactly the s_i bytes of the archive from that offset
\* on, and stat of entry i reports a regular file with filesize s_i.
C23_GrpLayout ==
    (GrpOpened /\ GrpDistinct) =>
        /\ C23_IndexedAt
        /\ C23_ReadToEof
        /\ C23_StatOfEntry

\* The same for the archives whose names differ by more than case, none a
\* directory of another, and whose data starts below 2^32 for every entry.
C23_WithinFormat ==
    (GrpOpened /\ GrpWithinFormat) =>
        /\ C23_IndexedAt
        /\ C23_ReadToEof
        /\ C23_StatOfEntry



-----------------------------------------------------------------------------
(* Opening the source of a mount: openDirectory and the archivers it tries,  *)
(* physfs.cpp 652-744.  In SpecOpen a source is a name, a sequence of        *)
(* characters, and what the platform holds under it: a directory, or a file  *)
(* [sig, dirlen] of which the model keeps the signature and, for a QPAK      *)
(* file, the length of its directory.  searchPath is the sequence of         *)
(* [dirName, funcs] of the mounts, errCode[t] the error code of the thread,  *)
(* reply the last call: for a mount the source, what it returned, the search *)
(* path before it, the archivers tried in order with what each did, and      *)
(* whether the stream the library opened has been destroyed.                 *)

\* PHYSFS_setErrorCode, physfs.cpp 604-625, on the code of the thread: OK
\* sets nothing.
CodeAfter(code, errcode) == IF errcode = ERR_OK THEN code ELSE errcode

\* The archivers in the order initStaticArchivers registers them
\* (physfs.cpp 973-985), each with info.extension.
Archivers ==
    <<[name |-> "GRP", extension |-> <<"G", "R", "P">>],
      [name |-> "QPAK", extension |-> <<"P", "A", "K">>],
      [name |-> "MVL", extension |-> <<"M", "V", "L">>]>>

\* The lower case letter of a letter of an extension.
ToLower(c) ==
    CASE c = "G" -> "g" [] c = "R" -> "r" [] c = "P" -> "p" [] c = "A" -> "a"
      [] c = "K" -> "k" [] c = "M" -> "m" [] c = "V" -> "v" [] c = "L" -> "l"
      [] OTHER -> c

\* PHYSFS_utf8stricmp(a, b) == 0.
SameExtension(a, b) ==
    [k \in 1..Len(a) |-> ToLower(a[k])] = [k \in 1..Len(b) |-> ToLower(b[k])]

\* The position of the last '.' of the name from k down, 0 when there is
\* none.
RECURSIVE LastDot(_, _)
LastDot(fname, k) ==
    IF k = 0 THEN 0 ELSE IF fname[k] = "." THEN k ELSE LastDot(fname, k - 1)

NoExtension == <<"no extension">>

\* find_filename_extension, physfs.cpp 652-668.
find_filename_extension(fname) ==
    IF LastDot(fname, Len(fname)) = 0 THEN NoExtension
    ELSE SubSeq(fname, LastDot(fname, Len(fname)) + 1, Len(fname))

\* What an openArchive gave: the archive or nullptr, *claimed, and the error
\* code it set, OK when it set none.
Opening(ret, claimed, err) == [ret |-> ret, claimed |-> claimed, err |-> err]

\* QPAK_openArchive, archivers/physfs_archiver_qpak.cpp 56-94, of a file
\* that holds the directory its header tells of.
QPAK_openArchive(file, forWriting) ==
    IF forWriting THEN Opening(FALSE, FALSE, ERR_READ_ONLY)
    ELSE IF file.sig # "PACK" THEN Opening(FALSE, FALSE, ERR_UNSUPPORTED)
    ELSE IF file.dirlen % 64 # 0 THEN Opening(FALSE, TRUE, "CORRUPT")
    ELSE Opening(TRUE, TRUE, ERR_OK)

\* GRP_openArchive (archivers/physfs_archiver_grp.cpp 58-82) and
\* MVL_openArchive (archivers/physfs_archiver_mvl.cpp 57-83) of a file that
\* holds the directory its header tells of.
UNPK_openArchiveOf(sig, file, forWriting) ==
    IF forWriting THEN Opening(FALSE, FALSE, ERR_READ_ONLY)
    ELSE IF file.sig # sig THEN Opening(FALSE, FALSE, ERR_UNSUPPORTED)
    ELSE Opening(TRUE, TRUE, ERR_OK)

\* funcs->openArchive(io, d, forWriting, &claimed) of a registered archiver.
openArchive(funcs, file, forWriting) ==
    CASE funcs.name = "GRP" -> UNPK_openArchiveOf("KenSilverman", file, forWriting)
      [] funcs.name = "QPAK" -> QPAK_openArchive(file, forWriting)
      [] funcs.name = "MVL" -> UNPK_openArchiveOf("DMVL", file, forWriting)

\* The archivers in the order of the registry, whatever the name.
TryOrder_Registered(fname) == Archivers

\* The archivers openDirectory goes through, in its order: those of the
\* extension of the name first, then the others (physfs.cpp 720-738).
TryOrder(fname) ==
    LET ext == find_filename_extension(fname)
        Matching == SelectSeq(Archivers, LAMBDA a : SameExtension(ext, a.extension))
        Others == SelectSeq(Archivers, LAMBDA a : ~SameExtension(ext, a.extension))
    IN  IF ext = NoExtension THEN Archivers ELSE Matching \o Others

\* 'not retval and not claimed', the test of the three loops of
\* openDirectory (physfs.cpp 722, 728, 735).
tryGoesOn(retval, claimed) == ~retval /\ ~claimed

\* The loops of openDirectory from archiver k of the order on: s is
\* [funcs, tried, claimed, code], funcs "" for no archive yet.
RECURSIVE tryOpenDirs(_, _, _, _, _)
tryOpenDirs(order, k, file, forWriting, s) ==
    IF k > Len(order) \/ ~tryGoesOn(s.funcs # "", s.claimed) THEN s
    ELSE LET Tried(o) ==
                 [funcs |-> IF o.ret THEN order[k].name ELSE "",
                  tried |-> Append(s.tried, [funcs |-> order[k].name,
                                             claimed |-> o.claimed, err |-> o.err]),
                  claimed |-> o.claimed,
                  code |-> CodeAfter(s.code, o.err)]
         IN  tryOpenDirs(order, k + 1, file, forWriting,
                         Tried(openArchive(order[k], file, forWriting)))

\* openDirectory, physfs.cpp 695-744, of a source of the platform or of a
\* stream (io): [funcs, tried, code, destroyed], funcs "" for nullptr.
openDirectoryOf(io, fname, file, forWriting, code) ==
    LET Done(s) ==
            [funcs |-> s.funcs, tried |-> s.tried,
             code |-> IF s.funcs = "" THEN CodeAfter(s.code, ERR_UNSUPPORTED) ELSE s.code,
             destroyed |-> s.funcs = "" /\ ~io]
    IN  IF ~io /\ file.sig = "directory"
        THEN [funcs |-> "DIR",
              tried |-> <<[funcs |-> "DIR", claimed |-> TRUE, err |-> ERR_OK]>>,
              code |-> code, destroyed |-> FALSE]
        ELSE Done(tryOpenDirs(TryOrder(fname), 1, file, forWriting,
                              [funcs |-> "", tried |-> <<>>, claimed |-> FALSE,
                               code |-> code]))

-----------------------------------------------------------------------------
(* SpecOpen: sources are mounted by name or as streams and unmounted, and    *)
(* the error code is fetched.                                                *)

OpenNames ==
    {<<"x", ".", "p", "a", "k">>, <<"x", ".", "g", "r", "p">>, <<"x">>, <<"d">>}

OpenFiles ==
    [sig : {"PACK"}, dirlen : {0, 64, 65}]
        \cup [sig : {"KenSilverman", "DMVL", "other"}, dirlen : {0}]

\* What the platform may hold under a name.
OpenSources(fname) ==
    IF fname = <<"d">> THEN {[sig |-> "directory", dirlen |-> 0]} ELSE OpenFiles

OpenInit ==
    /\ EngInit
    /\ SanIdle
    /\ data = <<>> /\ ios = <<>> /\ files = <<>>
    /\ ghost = <<>>
    /\ reply = [op |-> "none"]

OpenKeep == <<writeDir, openReadList, openWriteList, longest_root, allowSymLinks,
              stateLock, pc, last, sanVars, data, ios, files, ghost>>

\* PHYSFS_mount (physfs.cpp 1590-1595) and PHYSFS_mountIo (1535-1543) with
\* doMount (1495-1533) and createDirHandle (845-878).
OpenMount(t, io, fname, file, appendToPath) ==
    /\ IF \E k \in 1..Len(searchPath) : searchPath[k].dirName = fname
       THEN /\ reply' = [op |-> "mount", fname |-> fname, file |-> file, io |-> io,
                         ret |-> 1, before |-> searchPath, tried |-> <<>>,
                         destroyed |-> FALSE]
            /\ UNCHANGED <<searchPath, errCode>>
       ELSE LET Opened(r) ==
                    /\ searchPath' =
                           IF r.funcs = "" THEN searchPath
                           ELSE IF appendToPath
                           THEN Append(searchPath, [dirName |-> fname, funcs |-> r.funcs])
                           ELSE <<[dirName |-> fname, funcs |-> r.funcs]>> \o searchPath
                    /\ errCode' = [errCode EXCEPT ![t] = r.code]
                    /\ reply' = [op |-> "mount", fname |-> fname, file |-> file,
                                 io |-> io, ret |-> IF r.funcs = "" THEN 0 ELSE 1,
                                 before |-> searchPath, tried |-> r.tried,
                                 destroyed |-> r.destroyed]
            IN  Opened(openDirectoryOf(io, fname, file, FALSE, errCode[t]))
    /\ UNCHANGED OpenKeep

\* PHYSFS_unmount of a source no file of which is open.
OpenUnmount(t, fname) ==
    /\ \E k \in 1..Len(searchPath) : searchPath[k].dirName = fname
    /\ searchPath' = SelectSeq(searchPath, LAMBDA h : h.dirName # fname)
    /\ reply' = [op |-> "unmount", fname |-> fname, ret |-> 1]
    /\ UNCHANGED <<errCode, OpenKeep>>

\* PHYSFS_getLastErrorCode, physfs.cpp 558-565.
OpenGetLastErrorCode(t) ==
    /\ errCode[t] # ERR_OK
    /\ reply' = [op |-> "getLastErrorCode", ret |-> errCode[t]]
    /\ errCode' = [errCode EXCEPT ![t] = ERR_OK]
    /\ UNCHANGED <<searchPath, OpenKeep>>

OpenMounts ==
    \E io \in BOOLEAN, fname \in OpenNames, appendToPath \in BOOLEAN :
        \E file \in OpenSources(fname) :
            OpenMount("t1", io /\ fname # <<"d">>, fname, file, appendToPath)
OpenUnmounts == \E fname \in OpenNames : OpenUnmount("t1", fname)
OpenFetches == OpenGetLastErrorCode("t1")

OpenNext ==
    \/ OpenMounts
    \/ OpenUnmounts
    \/ OpenFetches

SpecOpen == OpenInit /\ [][OpenNext]_vars

-----------------------------------------------------------------------------
(* C24: a QPAK file with a directory that is no multiple of 64 long.         *)

\* The last call mounted a file with the signature PACK whose directory
\* length is no multiple of 64, not in the search path yet.
C24_CorruptQpak ==
    /\ reply.op = "mount"
    /\ reply.file.sig = "PACK" /\ reply.file.dirlen % 64 # 0
    /\ \A k \in 1..Len(reply.before) : reply.before[k].dirName # reply.fname

\* The QPAK archiver claimed the file and returned no archive with CORRUPT,
\* no archiver was tried after it, the mount failed and the search path is
\* as it was.
C24_ClaimedAndFailed ==
    /\ reply.ret = 0
    /\ reply.tried # <<>>
    /\ reply.tried[Len(reply.tried)] =
           [funcs |-> "QPAK", claimed |-> TRUE, err |-> "CORRUPT"]
    /\ \A k \in 1..(Len(reply.tried) - 1) :
          reply.tried[k].funcs # "QPAK" /\ ~reply.tried[k].claimed
    /\ searchPath = reply.before

\* C24: mounting a QPAK archive, signature 'PACK', whose header directory
\* length is not a multiple of 64 fails with error code CORRUPT: the QPAK
\* backend claims the stream and returns no archive, no further backend is
\* tried, nothing is added to the search path, and the error code the caller
\* observes for the failed mount is CORRUPT.
C24_MountFailsCorrupt ==
    C24_CorruptQpak => (C24_ClaimedAndFailed /\ errCode["t1"] = "CORRUPT")

\* All of it but the code the caller observes, which is UNSUPPORTED.
C24_MountFailsUnsupported ==
    C24_CorruptQpak => (C24_ClaimedAndFailed /\ errCode["t1"] = ERR_UNSUPPORTED)



-----------------------------------------------------------------------------
(* SpecMkdir: PHYSFS_mkdir into the write dir "M" and PHYSFS_stat of what    *)
(* it made.  data is [made, link]: the directories made in "M" so far, and   *)
(* whether "M" held the link "a/b" from the start.  ghost.done is the set    *)
(* of the paths whose PHYSFS_mkdir has returned success.                     *)

MkdirPaths ==
    {<<"a", "/", "b", "/", "c">>, <<"g", "/", "x", "/", "c">>, <<"a", "/", "b">>,
     <<"g", "/", "x">>}

MkdirInit ==
    /\ EngInit
    /\ SanIdle
    /\ \E link \in BOOLEAN : data = [made |-> {}, link |-> link]
    /\ ios = <<>> /\ files = <<>> /\ reply = <<>>
    /\ ghost = [done |-> {}]

\* The directories a call of doMkdir made, from the calls of the backend's
\* mkdir it made: the last of them alone.
mkdirMade_LastOnly(r) ==
    IF r.ret = 0 THEN {}
    ELSE {c.path : c \in {d \in r.calls : d.fn = "mkdir" /\
                             \A o \in r.calls : o.fn = "mkdir" => Len(o.path) <= Len(d.path)}}

\* The directories a call of doMkdir made, from the calls of the backend's
\* mkdir it made (physfs.cpp 1898-1899): all of them when it returned
\* success, all but the last when it did not (1901-1902).
mkdirMade(r) ==
    {c.path : c \in {d \in r.calls : d.fn = "mkdir" /\
                        (r.ret = 1 \/ \E o \in r.calls :
                                         o.fn = "mkdir" /\ Len(o.path) > Len(d.path))}}

\* PHYSFS_mkdir, physfs.cpp 1911-1927, with what it leaves in the write dir.
MkdirMkdir(t, fname) ==
    /\ pc[t].at = "idle"
    /\ CanGrab(t)
    /\ LET Made(r) ==
               /\ errCode' = [errCode EXCEPT ![t] = r.err]
               /\ last' = Returned("mkdir", t, "", fname, r.ret, r.calls, 0)
               /\ data' = [data EXCEPT !.made = @ \cup mkdirMade(r)]
               /\ ghost' = IF r.ret = 1 THEN [done |-> ghost.done \cup {fname}] ELSE ghost
       IN  IF writeDir.id = 0
           THEN /\ errCode' = [errCode EXCEPT ![t] = ERR_NO_WRITE_DIR]
                /\ last' = Returned("mkdir", t, "", fname, 0, {}, 0)
                /\ UNCHANGED <<data, ghost>>
           ELSE Made(doMkdir(writeDir, fname, allowSymLinks, errCode[t]))
    /\ UNCHANGED <<searchPath, writeDir, openReadList, openWriteList,
                   longest_root, allowSymLinks, stateLock, pc, sanVars, ios, files,
                   reply>>

MkdirMount ==
    \E newDir \in {"M", "B"}, mountPoint \in MountPointArgs, appendToPath \in BOOLEAN :
        PHYSFS_mount("t1", newDir, mountPoint, appendToPath)
MkdirLink == doMountLink("t1")
MkdirUnmount == \E oldDir \in {"M", "B"} : PHYSFS_unmount("t1", oldDir)
MkdirSetWriteDir == \E newDir \in {NullName, "M"} : PHYSFS_setWriteDir("t1", newDir)
MkdirPermitSymbolicLinks ==
    \E allow \in BOOLEAN : PHYSFS_permitSymbolicLinks("t1", allow)
MkdirMakes == \E fname \in MkdirPaths : MkdirMkdir("t1", fname)
MkdirStats == \E fname \in MkdirPaths : PHYSFS_stat("t1", fname)

MkdirNext ==
    \/ MkdirMount
    \/ MkdirLink
    \/ MkdirUnmount
    \/ MkdirSetWriteDir
    \/ MkdirPermitSymbolicLinks
    \/ MkdirMakes
    \/ MkdirStats

SpecMkdir == MkdirInit /\ [][MkdirNext]_vars

-----------------------------------------------------------------------------
(* C25: PHYSFS_stat after PHYSFS_mkdir.                                      *)

\* The last call is PHYSFS_stat of the directory of a path of three
\* segments whose PHYSFS_mkdir has returned success.
C25_StatAfterMkdir ==
    /\ last.op = "stat"
    /\ \E p \in ghost.done : Len(p) = 5 /\ last.path = ParentOf(p)

\* The write dir is the first mount of the search path, at the root.
C25_WriteDirFirst ==
    /\ searchPath # <<>>
    /\ searchPath[1].dirName = "M"
    /\ searchPath[1].mountPoint = <<>>
    /\ ~searchPath[1].hasRoot

C25_Directory == last.ret = 1 /\ last.filetype = FT_DIRECTORY

C25_AsStated == C25_StatAfterMkdir => C25_Directory

\* C25: after PHYSFS_mkdir("/a/b/c") has returned success, mkdir having made
\* every missing prefix a, a/b, a/b/c in the write dir, PHYSFS_stat("/a/b")
\* returns success with file type DIRECTORY, when the write dir is the first
\* mount of the search path, at the root with no sub-root, and a/b is no
\* symbolic link in it.
C25_StatOfMadeDirectory ==
    (C25_StatAfterMkdir /\ C25_WriteDirFirst
        /\ ~(last.path \in DOMAIN TreeM /\ TreeM[last.path] = FT_SYMLINK))
        => C25_Directory

\* PHYSFS_mkdir("/a/b/c") made a, a/b and a/b/c, and PHYSFS_stat("/a/b") has
\* then found the directory in the write dir, mounted first.
C25_Witness ==
    /\ C25_StatAfterMkdir /\ C25_WriteDirFirst /\ C25_Directory
    /\ last.path = <<"a", "/", "b">>
    /\ {<<"a">>, <<"a", "/", "b">>, <<"a", "/", "b", "/", "c">>} \subseteq data.made
    /\ Len(searchPath) = 2



-----------------------------------------------------------------------------
(* SpecEof: PHYSFS_eof on one PHYSFS_File "f": a read handle of a file of a  *)
(* directory (native stream), a read handle of an archive entry (byte-range  *)
(* stream over a memory or native parent), or a write handle.  ghost.size is *)
(* the length of the file, ghost.consumed the logical position: the number   *)
(* of bytes between the start of the file and the next byte a read gives;    *)
(* ghost.short says that the last call positioning the handle was a read     *)
(* that returned fewer bytes than asked, without error.                      *)

\* nativeIo_length, physfs.cpp 131-134; memoryIo_length, 237-240;
\* UNPK_length, archivers/physfs_archiver_unpacked.cpp 72-75.
io_length(w, id) ==
    IF w.ios[id].kind = "unpk" THEN w.ios[id].entry.size ELSE Len(w.data)

\* PHYSFS_eof, physfs.cpp 2533-2554.
PHYSFS_eof(w, h) ==
    LET AtEnd(pos, len) ==
            IF pos < 0 \/ len < 0 THEN 0
            ELSE IF pos >= len THEN 1 ELSE 0
    IN  IF ~w.files[h].forReading THEN 0
        ELSE IF w.files[h].bufpos = w.files[h].buffill
        THEN AtEnd(io_tell(w, w.files[h].io), io_length(w, w.files[h].io))
        ELSE 0

EofFileBytes == <<1, 2, 3>>

EofEntries ==
    { [startPos |-> 1, size |-> 3],
      [startPos |-> 2, size |-> 0],
      [startPos |-> 1, size |-> CurPosWrap + 1] }

EofGhost(size) == [size |-> size, consumed |-> 0, short |-> FALSE]

EofReply(op, arg, chunk, rc, err) ==
    [op |-> op, arg |-> arg, chunk |-> chunk, rc |-> rc, err |-> err]

\* The handle after PHYSFS_openRead of a file of a directory or of an entry
\* of an archive (physfs.cpp 2341-2361), or after PHYSFS_openWrite of a new
\* file (2284-2299).
EofInit ==
    /\ EngInit
    /\ SanIdle
    /\ reply = EofReply("none", 0, 0, 0, ERR_OK)
    /\ \/ /\ data = EofFileBytes
          /\ ios = <<NativeIo("r")>>
          /\ files = [h \in {TheFile} |-> FileHandle(1, TRUE)]
          /\ ghost = EofGhost(Len(EofFileBytes))
       \/ \E parent \in ArchiveIos, entry \in EofEntries :
              LET Opened(r) ==
                      /\ data = RangeBytes
                      /\ ios = r.w.ios
                      /\ files = [h \in {TheFile} |-> FileHandle(r.rc, TRUE)]
                      /\ ghost = EofGhost(entry.size)
              IN  Opened(UNPK_openReadAt(World(RangeBytes, <<parent>>, <<>>), 1, entry))
       \/ /\ data = <<>>
          /\ ios = <<NativeIo("w")>>
          /\ files = [h \in {TheFile} |-> FileHandle(1, FALSE)]
          /\ ghost = EofGhost(0)

EofKeep == <<engVars, sanVars>>

EofCalled(op, arg, chunk, r, g) ==
    /\ data' = r.w.data
    /\ ios' = r.w.ios
    /\ files' = r.w.files
    /\ reply' = EofReply(op, arg, chunk, r.rc, r.err)
    /\ ghost' = g
    /\ UNCHANGED EofKeep

\* PHYSFS_readBytes(f, buf, len).
EofRead(len, chunk) ==
    /\ files[TheFile].forReading
    /\ LET Read(r) ==
               EofCalled("readBytes", len, chunk, r,
                         [ghost EXCEPT !.consumed = IF r.rc > 0 THEN @ + r.rc ELSE @,
                                       !.short = r.rc >= 0 /\ r.rc < len])
       IN  Read(PHYSFS_readBytes(TheWorld, TheFile, len, chunk))

\* The offset in the file of the next byte the stream id gives: for a
\* byte-range stream, where its parent is, from the start of the entry.
StreamAt(w, id) ==
    IF w.ios[id].kind = "unpk"
    THEN w.ios[w.ios[id].io].pos - w.ios[id].entry.startPos
    ELSE w.ios[id].pos

\* The offset in the file of the next byte a read of the handle gives.
HandleAt(w, h) ==
    StreamAt(w, w.files[h].io) - (w.files[h].buffill - w.files[h].bufpos)

\* PHYSFS_seek(f, pos).  A seek that succeeds leaves the handle where it put
\* the stream or the buffer; one of a read handle that fails has dropped the
\* bytes that were left in the user buffer (physfs.cpp 2582-2583).
EofSeek(pos, accept) ==
    LET Sought(fh, r) ==
            EofCalled("seek", pos, 0, r,
                      IF ~fh.forReading THEN ghost
                      ELSE IF r.rc # 0
                      THEN [ghost EXCEPT !.consumed = HandleAt(r.w, TheFile),
                                         !.short = FALSE]
                      ELSE [ghost EXCEPT !.consumed = @ + (fh.buffill - fh.bufpos),
                                         !.short = FALSE])
    IN  Sought(files[TheFile], PHYSFS_seek(TheWorld, TheFile, pos, accept))

\* PHYSFS_setBuffer(f, bufsize): it seeks the stream of a read handle to
\* where the handle is (physfs.cpp 2604-2610).
EofSetBuffer(bufsize, accept) ==
    LET Set(fh, r) ==
            EofCalled("setBuffer", bufsize, 0, r,
                      IF fh.forReading /\ r.rc # 0
                      THEN [ghost EXCEPT !.consumed = HandleAt(r.w, TheFile)]
                      ELSE ghost)
    IN  Set(files[TheFile], PHYSFS_setBuffer(TheWorld, TheFile, bufsize, accept))

\* PHYSFS_writeBytes(f, buffer, len) on the write handle.
EofWrite(buffer, accept, accept2) ==
    /\ ~files[TheFile].forReading
    /\ Len(data) + files[TheFile].buffill < MaxBytes
    /\ EofCalled("writeBytes", Len(buffer), 0,
                 PHYSFS_writeBytes(TheWorld, TheFile, buffer, accept, accept2), ghost)

\* PHYSFS_eof(f).
EofEof ==
    EofCalled("eof", 0, 0, Gave(TheWorld, PHYSFS_eof(TheWorld, TheFile), <<>>, ERR_OK),
              ghost)

EofReads == \E len \in 1..MaxBytes, chunk \in Chunks : EofRead(len, chunk)
EofSeeks == \E pos \in 0..(CurPosWrap + 2), accept \in {0, MaxBytes} : EofSeek(pos, accept)
EofSetBuffers == \E bufsize \in BufSizes, accept \in {0, MaxBytes} : EofSetBuffer(bufsize, accept)
EofWrites ==
    \E buffer \in {<<7>>, <<7, 8>>}, accept \in 0..2, accept2 \in 0..2 :
        EofWrite(buffer, accept, accept2)

EofNext ==
    \/ EofReads
    \/ EofSeeks
    \/ EofSetBuffers
    \/ EofWrites
    \/ EofEof

SpecEof == EofInit /\ [][EofNext]_vars

-----------------------------------------------------------------------------
(* C27: PHYSFS_eof.                                                          *)

EofOnRead == reply.op = "eof" /\ files[TheFile].forReading

\* True exactly when the logical position is at or past the length.
C27_ExactlyAtEnd ==
    EofOnRead => (reply.rc = 1 <=> ghost.consumed >= ghost.size)

\* False while bytes are left in the user buffer or in the stream.
C27_NotWhileUnread ==
    EofOnRead /\ reply.rc = 1 =>
        /\ files[TheFile].bufpos = files[TheFile].buffill
        /\ ghost.consumed >= ghost.size

C27_AfterShortRead == EofOnRead /\ ghost.short => reply.rc = 1

C27_NeverOnWrite ==
    reply.op = "eof" /\ ~files[TheFile].forReading => reply.rc = 0

\* The stream of the handle keeps its position exactly: it is no byte-range
\* stream of an entry as long as the wrap of curPos.
EofWithinCurPos ==
    ios[files[TheFile].io].kind = "unpk" => ghost.size < CurPosWrap

\* C27: on a read handle, buffered or not, PHYSFS_eof returns true exactly
\* when the logical position is at or past the length of the file, and
\* false while unread bytes are left in the user buffer or in the stream;
\* it is true after a read that returned fewer bytes than asked without
\* error; on a write handle it is always false.
C27_Eof ==
    /\ C27_ExactlyAtEnd
    /\ C27_NotWhileUnread
    /\ C27_AfterShortRead
    /\ C27_NeverOnWrite

\* The same for the handles whose stream keeps its position exactly, the
\* short reads being those the end of the file cut short.
C27_WithinCurPos ==
    /\ EofWithinCurPos => C27_ExactlyAtEnd /\ C27_NotWhileUnread
    /\ EofWithinCurPos /\ EofOnRead /\ ghost.short /\ ghost.consumed >= ghost.size
           => reply.rc = 1
    /\ C27_NeverOnWrite

\* PHYSFS_eof said no although every byte of the entry has been read.
C27_Missed ==
    /\ EofOnRead /\ reply.rc = 0
    /\ ghost.consumed = ghost.size
    /\ ~EofWithinCurPos



-----------------------------------------------------------------------------
(* SpecVerify: the calls of verifyPath.  A lookup (PHYSFS_openRead,          *)
(* physfs.cpp 2329-2346) puts the sanitized path behind longest_root + 1     *)
(* characters of scratch space and calls verifyPath for one mount after the  *)
(* other, each from the same position of the same buffer; doMkdir and        *)
(* doDelete call it once for the write dir.  reply.calls are the calls of    *)
(* verifyPath the last operation made, in order: the mount h, the path it    *)
(* was given, allowMissing, whether links are permitted, what it returned,   *)
(* the path *_fname it left for the backend, the error code, and the path    *)
(* kept in the buffer for the mounts that follow.                            *)

VerifySources == {"A", "B"}
VerifyMountPoints == {NullPath, <<"m", "n">>}
VerifyRoots == {NullPath, <<"g">>}
VerifyPaths ==
    {<<>>, <<"m">>, <<"m", "n">>, <<"m", "n", "x">>, <<"m", "n", "/", "x">>,
     <<"q", "/", "x">>}
VerifyWritePaths == {<<"d">>, <<"d", "/", "q">>, <<"q", "/", "x">>}

VerifyInit ==
    /\ EngInit
    /\ SanIdle
    /\ data = <<>> /\ ios = <<>> /\ files = <<>>
    /\ ghost = <<>>
    /\ reply = [op |-> "none", calls |-> <<>>]

VerifyKeep ==
    <<searchPath, writeDir, openReadList, openWriteList, longest_root,
      allowSymLinks, stateLock, pc, last, sanVars, data, ios, files, ghost>>

\* What a call of verifyPath for h on the path at fname of buf gave.
VerifyCall(h, buf, fname, allowMissing, allowSym, v) ==
    [h |-> h, path |-> CStr(buf, fname), allowMissing |-> allowMissing,
     allowSym |-> allowSym, ok |-> v.ok, arcfname |-> CStr(v.buf, v.fname),
     err |-> v.err, kept |-> CStr(v.buf, fname), from |-> fname,
     at |-> v.fname, room |-> Len(buf)]

\* The loop of a lookup, physfs.cpp 2339-2346, from the k-th mount on, no
\* mount holding the file: the calls of verifyPath it makes.
RECURSIVE VerifyWalk(_, _, _, _, _, _, _)
VerifyWalk(sp, k, buf, fname, allowSym, e, calls) ==
    LET Turn(v) ==
            VerifyWalk(sp, k + 1, v.buf, fname, allowSym, v.err,
                       Append(calls, VerifyCall(sp[k], buf, fname, FALSE, allowSym, v)))
    IN  IF k > Len(sp) THEN calls
        ELSE Turn(verifyPath(sp[k], buf, fname, FALSE, allowSym, e))

VerifyReturned(op, calls) ==
    /\ reply' = [op |-> op, calls |-> calls]
    /\ errCode' = IF calls = <<>> THEN errCode
                  ELSE [errCode EXCEPT !["t1"] = calls[Len(calls)].err]
    /\ UNCHANGED VerifyKeep

VerifyMount ==
    \E newDir \in VerifySources, mountPoint \in VerifyMountPoints :
        PHYSFS_mount("t1", newDir, mountPoint, TRUE)

VerifyMountLink == doMountLink("t1")

VerifySetRoot ==
    \E archive \in VerifySources, subdir \in VerifyRoots :
        PHYSFS_setRoot("t1", archive, subdir)

VerifyPermitSymbolicLinks ==
    \E allow \in BOOLEAN : PHYSFS_permitSymbolicLinks("t1", allow)

VerifySetWriteDir == PHYSFS_setWriteDir("t1", "W")

\* A lookup of fname, physfs.cpp 2329-2346.
VerifyLookup(fname) ==
    /\ pc["t1"].at = "idle"
    /\ searchPath # <<>>
    /\ sanitizePlatformIndependentPath(fname).ok
    /\ VerifyReturned("lookup",
                      VerifyWalk(searchPath, 1,
                                 PathBuffer(longest_root + 1,
                                            sanitizePlatformIndependentPath(fname).dst),
                                 longest_root + 2, allowSymLinks, errCode["t1"], <<>>))

\* verifyPath for the write dir: with allowMissing from doMkdir (physfs.cpp
\* 1874-1875), without from doDelete (1932-1933) and doOpenWrite (2281).
VerifyWrite(fname, allowMissing) ==
    /\ pc["t1"].at = "idle"
    /\ writeDir.id # 0
    /\ sanitizePlatformIndependentPath(fname).ok
    /\ LET WriteCalled(buf) ==
               VerifyReturned("write",
                              <<VerifyCall(writeDir, buf, 1, allowMissing, allowSymLinks,
                                           verifyPath(writeDir, buf, 1, allowMissing,
                                                      allowSymLinks, errCode["t1"]))>>)
       IN  WriteCalled(PathBuffer(Len(writeDir.root),
                                  sanitizePlatformIndependentPath(fname).dst))

VerifyLookups == \E fname \in VerifyPaths : VerifyLookup(fname)
VerifyWrites ==
    \E fname \in VerifyWritePaths, allowMissing \in BOOLEAN :
        VerifyWrite(fname, allowMissing)

VerifyNext ==
    \/ VerifyMount
    \/ VerifyMountLink
    \/ VerifySetRoot
    \/ VerifyPermitSymbolicLinks
    \/ VerifySetWriteDir
    \/ VerifyLookups
    \/ VerifyWrites

SpecVerify == VerifyInit /\ [][VerifyNext]_vars



-----------------------------------------------------------------------------
(* C28, C29, C30: what verifyPath does to the path.                          *)

VerifyCalls == { reply.calls[k] : k \in 1..Len(reply.calls) }

\* The mount point of h as mounted, without the '/' that ends it.
MountPointOf(h) ==
    IF h.mountPoint = <<>> THEN <<>> ELSE SubSeq(h.mountPoint, 1, Len(h.mountPoint) - 1)

\* C28: within one lookup that walks several mounts, verifyPath for one mount
\* leaves the sanitized path as it was for the mounts that follow, from its
\* first character to its terminator, whether it succeeds or fails and
\* whatever the mount point and sub-root of the mount.
C28_PathKept ==
    reply.op = "lookup" => \A c \in VerifyCalls : c.kept = c.path

\* The same for the mounts that have no sub-root below a mount point.
C28_ButRootBelowMountPoint ==
    reply.op = "lookup" =>
        \A c \in VerifyCalls :
            ~(c.h.hasRoot /\ c.h.mountPoint # <<>>) => c.kept = c.path

\* A lookup in which the second mount was given another path than the first.
C28_Altered ==
    /\ reply.op = "lookup"
    /\ Len(reply.calls) = 2
    /\ reply.calls[2].path # reply.calls[1].path



\* P is M or lies below M at a '/'.
PathBelow(P, M) ==
    \/ P = M
    \/ Len(P) > Len(M) /\ SubSeq(P, 1, Len(M)) = M /\ P[Len(M) + 1] = SLASH

\* What is left of P below M.
PathRest(P, M) ==
    IF M = <<>> THEN P
    ELSE IF Len(P) <= Len(M) THEN <<>>
    ELSE SubSeq(P, Len(M) + 2, Len(P))

\* The sub-root of h in front of rest.
PathRooted(h, rest) ==
    IF ~h.hasRoot THEN rest
    ELSE IF rest = <<>> THEN h.root
    ELSE h.root \o <<SLASH>> \o rest

C29_Mapped(c) ==
    IF MountPointOf(c.h) # <<>> /\ ~PathBelow(c.path, MountPointOf(c.h))
    THEN ~c.ok /\ c.err = ERR_NOT_FOUND
    ELSE c.arcfname = PathRooted(c.h, PathRest(c.path, MountPointOf(c.h)))

C29_AsStated == \A c \in VerifyCalls : C29_Mapped(c)

\* C29: for a mount with mount point M and sub-root R, verifyPath maps the
\* path P to R/rest when P = M/rest, to R when P = M, to rest or the empty
\* path when the mount has no sub-root, and fails with NOT_FOUND when P is
\* neither M nor below M at a '/'; with neither mount point nor sub-root the
\* path is passed on unchanged.  The empty path on a mount with no sub-root
\* is passed on as it is, with success, whatever the mount point.
C29_PathMapping ==
    \A c \in VerifyCalls :
        IF c.path = <<>> /\ ~c.h.hasRoot
        THEN c.ok /\ c.arcfname = <<>>
        ELSE C29_Mapped(c)

\* A lookup of "mn/x" has asked a mount at "mn" with sub-root "g" for "g/x",
\* and one of "mnx" has failed on it.
C29_Witness ==
    \E c \in VerifyCalls :
        /\ MountPointOf(c.h) = <<"m", "n">>
        /\ c.h.hasRoot /\ c.h.root = <<"g">>
        /\ c.path = <<"m", "n", "/", "x">>
        /\ c.ok
        /\ c.arcfname = <<"g", "/", "x">>

\* The prefixes of p that end before a '/' or at the end of p.
PathPrefixes(p) ==
    { SubSeq(p, 1, i) : i \in { j \in 1..Len(p) : j = Len(p) \/ p[j + 1] = SLASH } }

\* The backend of the mount of c reports NOT_FOUND for q.
StatMissing(c, q) ==
    ~ArcStat(c.h.dirName, q).ok /\ ArcStat(c.h.dirName, q).err = ERR_NOT_FOUND

\* The walk of c comes as far as q: links are forbidden, the path is in the
\* mount, and every prefix shorter than q is there and is no link.
WalkReaches(c, q) ==
    /\ ~c.allowSym
    /\ MountPointOf(c.h) = <<>> \/ PathBelow(c.path, MountPointOf(c.h))
    /\ q \in PathPrefixes(c.arcfname)
    /\ \A s \in PathPrefixes(c.arcfname) :
           Len(s) < Len(q) =>
               /\ ArcStat(c.h.dirName, s).ok
               /\ ArcStat(c.h.dirName, s).filetype # FT_SYMLINK

LastMissing(c) == WalkReaches(c, c.arcfname) /\ StatMissing(c, c.arcfname)

EarlierMissing(c) ==
    \E q \in PathPrefixes(c.arcfname) :
        q # c.arcfname /\ WalkReaches(c, q) /\ StatMissing(c, q)

C30_AsStated ==
    \A c \in VerifyCalls : LastMissing(c) => (c.ok <=> c.allowMissing)

\* C30: in verifyPath with symbolic links forbidden, when the backend's stat
\* reports NOT_FOUND for the last segment of the path verifyPath succeeds,
\* whether allow_missing is set or clear; when it reports NOT_FOUND for an
\* earlier segment, verifyPath succeeds only if allow_missing is set, and
\* with allow_missing clear it fails with NOT_FOUND.
C30_MissingSegment ==
    \A c \in VerifyCalls :
        /\ LastMissing(c) => c.ok
        /\ EarlierMissing(c) =>
               /\ c.ok <=> c.allowMissing
               /\ ~c.ok => c.err = ERR_NOT_FOUND

\* verifyPath for the write dir, without allowMissing, has let "d/q"
\* through, "q" being missing in the directory "d".
C30_Witness ==
    /\ reply.op = "write"
    /\ \E c \in VerifyCalls :
           /\ LastMissing(c)
           /\ ~c.allowMissing
           /\ c.ok
           /\ c.arcfname = <<"d", "/", "q">>


-----------------------------------------------------------------------------
(* C31: the order in which openDirectory tries the archivers.                *)

\* The last call mounted a source that is no directory and was not in the
\* search path yet.
C31_FileMount ==
    /\ reply.op = "mount"
    /\ reply.file.sig # "directory"
    /\ \A k \in 1..Len(reply.before) : reply.before[k].dirName # reply.fname

\* The place of an archiver in the registry.
RegisteredAt(name) == CHOOSE k \in 1..Len(Archivers) : Archivers[k].name = name

\* The extension of the archiver is that of the name of the source, the
\* case of letters aside.
OfExtension(name, fname) ==
    /\ find_filename_extension(fname) # NoExtension
    /\ SameExtension(find_filename_extension(fname),
                     Archivers[RegisteredAt(name)].extension)

\* Archiver a comes before archiver b for a source of this name: a is of
\* its extension and b is not, or neither differs from the other in that
\* and a was registered first.
TriedBefore(a, b, fname) ==
    \/ OfExtension(a, fname) /\ ~OfExtension(b, fname)
    \/ /\ OfExtension(a, fname) = OfExtension(b, fname)
       /\ RegisteredAt(a) < RegisteredAt(b)

\* The archivers tried are in that order, none twice, and none that comes
\* before one that was tried has been left out.
C31_InOrder ==
    /\ \A i, j \in 1..Len(reply.tried) :
          i < j => TriedBefore(reply.tried[i].funcs, reply.tried[j].funcs, reply.fname)
    /\ \A i, j \in 1..Len(reply.tried) :
          reply.tried[i].funcs = reply.tried[j].funcs => i = j
    /\ \A k \in 1..Len(Archivers) : \A j \in 1..Len(reply.tried) :
          TriedBefore(Archivers[k].name, reply.tried[j].funcs, reply.fname)
              => \E i \in 1..(j - 1) : reply.tried[i].funcs = Archivers[k].name

\* Trying stops at the first archiver that returns an archive or claims the
\* source, and not before.
C31_StopsAtFirst ==
    /\ \A k \in 1..(Len(reply.tried) - 1) :
          ~reply.tried[k].claimed /\ reply.tried[k].err # ERR_OK
    /\ Len(reply.tried) < Len(Archivers) =>
          /\ reply.tried # <<>>
          /\ \/ reply.tried[Len(reply.tried)].claimed
             \/ reply.tried[Len(reply.tried)].err = ERR_OK

\* An archiver that claimed the source and failed is the last one tried and
\* the mount fails.
C31_ClaimedAndFailed ==
    \A k \in 1..Len(reply.tried) :
        (reply.tried[k].claimed /\ reply.tried[k].err # ERR_OK)
            => (k = Len(reply.tried) /\ reply.ret = 0 /\ searchPath = reply.before)

\* With no archive returned the mount fails, and the stream is destroyed
\* exactly when the library opened it.
C31_NoneReturned ==
    (\A k \in 1..Len(reply.tried) : reply.tried[k].err # ERR_OK)
        => /\ reply.ret = 0
           /\ searchPath = reply.before
           /\ reply.destroyed = ~reply.io

\* C31: when mounting a non-directory source, backends whose extension
\* case-insensitively equals the source name's extension are tried first,
\* then all remaining registered backends in registration order; every
\* backend is tried at most once; trying stops at the first backend that
\* returns an archive or sets claimed; if a backend claimed and failed, the
\* mount fails without any further backend being tried; if no backend
\* returns an archive the mount fails and a stream the library itself
\* opened for the source is destroyed.
C31_BackendOrder ==
    C31_FileMount =>
        /\ C31_InOrder
        /\ C31_StopsAtFirst
        /\ C31_ClaimedAndFailed
        /\ C31_NoneReturned

\* A file "x.pak" that no archiver takes, opened by the library: the QPAK
\* archiver was tried first, then GRP and MVL, and the stream is destroyed.
C31_Witness ==
    /\ C31_FileMount
    /\ ~reply.io
    /\ Len(reply.tried) = 3
    /\ reply.tried[1].funcs = "QPAK" /\ reply.tried[2].funcs = "GRP"
    /\ reply.ret = 0 /\ reply.destroyed


-----------------------------------------------------------------------------
(* C32: what __PHYSFS_DirTreeAdd adds.                                       *)

\* The proper prefixes of a name that end before a '/'.
SlashPrefixes(name) ==
    {SubSeq(name, 1, k - 1) : k \in {j \in 1..Len(name) : name[j] = SLASH}}

\* The entries of the tree, the root aside, that go by the name.
Indexed(dt, name) ==
    {e \in 2..Len(dt.entries) : SameName(dt, dt.entries[e].name, name)}

\* The entries of the name, the root for the empty name.
IndexedOrRoot(dt, name) == IF name = <<>> THEN {1} ELSE Indexed(dt, name)

\* Nothing has been added, and every entry is under the parent it was under.
SameEntries(dt, after) ==
    /\ Len(after.entries) = Len(dt.entries)
    /\ \A e \in 1..Len(dt.entries) :
          /\ after.entries[e].name = dt.entries[e].name
          /\ after.entries[e].isdir = dt.entries[e].isdir
          /\ after.entries[e].children = dt.entries[e].children
          /\ after.entries[e].sibling = dt.entries[e].sibling

\* Some proper prefix of the name is indexed as a file.
UnderAFile(dt, name) ==
    \E q \in SlashPrefixes(name) : \E e \in Indexed(dt, q) : ~dt.entries[e].isdir

\* Entry e, of the name, is the first child of the entry of the directory
\* that holds the name, which is a directory.
FirstChildOfParent(dt, e, name) ==
    \E p \in IndexedOrRoot(dt, ParentName(name)) :
        dt.entries[p].isdir /\ dt.entries[p].children = e

\* Every proper prefix of the name is indexed as a directory, each a child
\* of the one before it.
ParentChain(dt, name) ==
    \A q \in SlashPrefixes(name) : q # <<>> =>
        \E e \in Indexed(dt, q) :
            /\ dt.entries[e].isdir
            /\ \E p \in IndexedOrRoot(dt, ParentName(q)) :
                  LET Holds(chain) == Occurrences(chain, e) = 1
                  IN  Holds(ChildrenOf(dt, p))

\* The call added the name: the entry returned is new, has the name and the
\* flag of the call, heads its bucket and is the first child of its parent.
AddedEntry(dt, after, r) ==
    /\ r.ret > Len(dt.entries) /\ r.ret <= Len(after.entries)
    /\ after.entries[r.ret].name = r.name
    /\ after.entries[r.ret].isdir = r.isdir
    /\ after.hash[hashPathName(after, r.name)] = r.ret
    /\ FirstChildOfParent(after, r.ret, r.name)
    /\ ParentChain(after, r.name)
    /\ \A e \in 1..Len(dt.entries) :
          /\ after.entries[e].name = dt.entries[e].name
          /\ after.entries[e].isdir = dt.entries[e].isdir

C32_AddStep ==
    reply'.op = "add" =>
        IF Indexed(data, reply'.name) # {}
        THEN /\ reply'.ret \in Indexed(data, reply'.name)
             /\ SameEntries(data, data')
        ELSE IF UnderAFile(data, reply'.name)
        THEN /\ reply'.ret = 0 /\ reply'.err = "CORRUPT"
             /\ SameEntries(data, data')
        ELSE AddedEntry(data, data', reply')

\* C32: __PHYSFS_DirTreeAdd(name) on a name not yet indexed succeeds only if
\* no proper '/'-prefix of name is indexed as a file; on success every proper
\* '/'-prefix of name is indexed as a directory and forms the parent chain of
\* the new entry, which is at the head of its hash bucket and is the first
\* child of its parent; when some prefix is a file it fails with CORRUPT and
\* the tree contains exactly the entries, with the same parents, that it
\* contained before the call; adding an already indexed name returns the
\* existing entry and adds nothing.
C32_DirTreeAdd == [][C32_AddStep]_vars

\* "a/b/b" has been added to a tree that held no "a": the two directories
\* above it have been made, and "a/b" holds it and nothing else.
C32_Witness ==
    /\ reply.op = "add" /\ reply.ret = 4
    /\ reply.name = <<"a", "/", "b", "/", "b">>
    /\ Len(data.entries) = 4
    /\ data.entries[3].isdir /\ data.entries[3].children = 4

\* An add has failed below a file.
C32_Refused ==
    /\ reply.op = "add" /\ reply.ret = 0
    /\ reply.name = <<"a", "/", "b", "/", "b">>


-----------------------------------------------------------------------------
(* C33: where the parent of a byte-range stream stands.                      *)

\* The parent stands at the byte of the archive that the position of the
\* byte-range stream stands for.
ParentInStep == RangeParent.pos = RangeIo.entry.startPos + RangeIo.curPos

\* The last call was a read that took its bytes from where the position of
\* the byte-range stream pointed, if it took any.
ReadFromCursor ==
    (reply.op = "read" /\ reply.rc > 0) =>
        reply.ppos = RangeIo.entry.startPos + reply.cur

\* The stream is the one UNPK_openRead returned, not a duplicate of it.
FromOpenRead == ghost.io = 3

\* C33: for every byte-range stream returned by UNPK_openRead or by
\* UNPK_duplicate, and after any sequence of its read and seek calls, the
\* position of its private parent stream equals entry.start_pos + cur_pos,
\* so read(n) returns the entry's bytes [cur_pos, cur_pos + n); in
\* particular a stream fresh from duplicate (cur_pos = 0) returns the
\* entry's first bytes without a prior seek, and open_read returns no
\* stream when positioning the duplicated parent at entry.start_pos failed
\* (a stream it returned stands at the start of the entry).
C33_ParentPosition == ParentInStep /\ ReadFromCursor

\* The same for the streams of UNPK_openRead on entries shorter than the
\* wrap of curPos, and for duplicates once a seek has succeeded on them.
C33_AfterPositioning ==
    (RangeIo.entry.size < CurPosWrap /\ FromOpenRead) => C33_ParentPosition

\* A read on a fresh duplicate has returned bytes from the start of the
\* archive.
C33_Misplaced ==
    /\ ~FromOpenRead
    /\ reply.op = "read" /\ reply.rc > 0
    /\ reply.cur = 0 /\ reply.ppos = 0
    /\ RangeIo.entry.startPos = 1


-----------------------------------------------------------------------------
(* C34: a PHYSFS_seek that fails.                                            *)

\* The step is a PHYSFS_seek on a read handle with a user buffer that
\* returned failure.
FailedBufferedSeek ==
    /\ reply'.op = "seek" /\ reply'.rc = 0
    /\ files[TheFile].forReading
    /\ files[TheFile].buffer # <<>>

\* PHYSFS_tell is what it was, and the next byte a read gives is the byte it
\* would have given.
SeekLeftNoTrace ==
    /\ PHYSFS_tell(World(data', ios', files'), TheFile) = PHYSFS_tell(TheWorld, TheFile)
    /\ HandleAt(World(data', ios', files'), TheFile) = HandleAt(TheWorld, TheFile)

\* C34: if PHYSFS_seek on a buffered read handle returns failure, the
\* handle's logical position (PHYSFS_tell) and the bytes returned by
\* subsequent reads are the same as if the seek had not been called.
C34_FailedSeek == [][FailedBufferedSeek => SeekLeftNoTrace]_vars

\* The same when no byte was left unread in the user buffer.
C34_EmptyBuffer ==
    [][(FailedBufferedSeek /\ files[TheFile].bufpos = files[TheFile].buffill)
           => SeekLeftNoTrace]_vars

\* A seek has failed on a read handle with a user buffer that is empty now.
C34_Dropped ==
    /\ reply.op = "seek" /\ reply.rc = 0
    /\ files[TheFile].forReading /\ files[TheFile].buffer # <<>>
    /\ files[TheFile].buffill = 0
    /\ HandleAt(TheWorld, TheFile) > 1


-----------------------------------------------------------------------------
(* C35: PHYSFS_flush of a write handle.                                      *)

\* The handle is open for writing.
BufWriting == ghost.phase = "writing" /\ files[TheFile].io # 0

\* Every byte that a PHYSFS_writeBytes took is in the file or in the user
\* buffer, in the order written.
NoByteDropped ==
    BufWriting => data \o Pending(files[TheFile]) = ghost.written

\* A PHYSFS_flush that returned success has left the user buffer empty and
\* every byte written in the file.
FlushedAll ==
    (BufWriting /\ reply.op = "flush" /\ reply.rc = 1) =>
        /\ files[TheFile].bufpos = files[TheFile].buffill
        /\ data = ghost.written

\* C35: PHYSFS_flush on a write handle returns success and empties the user
\* buffer only if every buffered byte has been accepted by the underlying
\* stream; when the underlying write accepts fewer bytes than offered
\* (0 < rc < n) or fails, the bytes not accepted stay buffered or flush
\* reports failure, so that no byte passed to a successful PHYSFS_writeBytes
\* is ever dropped before it reaches the underlying stream.
C35_FlushKeepsBytes == NoByteDropped /\ FlushedAll

\* A step of PHYSFS_flush in which the stream took all or none of the bytes
\* offered keeps every byte, and empties the buffer only when all are
\* written.
C35_AllOrNone ==
    [][(/\ BufWriting /\ reply'.op = "flush"
        /\ Len(data') - Len(data) \in {0, Len(Pending(files[TheFile]))})
           => /\ data' \o Pending(files'[TheFile]) = data \o Pending(files[TheFile])
              /\ reply'.rc = 1 => Pending(files'[TheFile]) = <<>>
              /\ reply'.rc = 0 => data' = data]_vars

\* A PHYSFS_flush has returned success with a byte in neither the file nor
\* the buffer.
C35_Lost ==
    /\ BufWriting /\ reply.op = "flush" /\ reply.rc = 1
    /\ Len(data) < Len(ghost.written)
    /\ files[TheFile].buffill = 0


-----------------------------------------------------------------------------
(* SpecMountMem: PHYSFS_mountMemory of buffers that hold an archive, a       *)
(* corrupt archive or something else, under one of two names, with           *)
(* PHYSFS_unmount, PHYSFS_openRead of the file of the archive and            *)
(* PHYSFS_close in between.  searchPath is the sequence of                   *)
(* [id, dirName, funcs, io] of the mounts, io the address of UNPKinfo.io;    *)
(* openReadList the handles, each [dirHandle, io], newest first.  The        *)
(* calls of PHYSFS_mountMemory are numbered, and so are their buffers:       *)
(* ghost.mounts[n] is call n with what it returned, ghost.owner[id] the      *)
(* number of the call that made stream id with __PHYSFS_createMemoryIo (0    *)
(* for the other streams), ghost.destruct[id] whether info->destruct of      *)
(* stream id is set, and ghost.destructs[n] the number of calls of the       *)
(* callback on buffer n.                                                     *)

MaxMemMounts == 2

\* No more streams than the mounts and the handles make.
MaxMemIos == MaxMemMounts + 2 * MaxOpen

MountMemNames == {<<"x", ".", "g", "r", "p">>, <<"y">>}

\* What a buffer holds: a GRP archive, a QPAK archive with a directory of a
\* bad length, or no archive.
MountMemFiles ==
    {[sig |-> "KenSilverman", dirlen |-> 0], [sig |-> "PACK", dirlen |-> 65],
     [sig |-> "other", dirlen |-> 0]}

MountMemPoints == {NullPath, <<"m">>, <<":">>}

PadTo(seq, n, x) == [k \in 1..n |-> IF k <= Len(seq) THEN seq[k] ELSE x]

\* The calls of the callback that the streams freed between the worlds w
\* and v stand for: memoryIo_destroy calls destruct(buf) when it frees the
\* stream that holds one (physfs.cpp 292-300).
DestructsAfter(w, v, g, destruct) ==
    [n \in 1..Len(g.destructs) |->
        g.destructs[n]
          + Cardinality({id \in 1..Len(w.ios) :
                            /\ g.owner[id] = n
                            /\ destruct[id]
                            /\ w.ios[id].kind = "memory"
                            /\ v.ios[id].kind = "freed"})]

MountMemInit ==
    /\ EngInit
    /\ SanIdle
    /\ data = ArchiveBytes
    /\ ios = <<>>
    /\ files = <<>>
    /\ ghost = [mounts |-> <<>>, owner |-> <<>>, destruct |-> <<>>, destructs |-> <<>>]
    /\ reply = [op |-> "none", ret |-> 0, io |-> 0, fresh |-> FALSE]

MountMemKeep == <<writeDir, openWriteList, longest_root, allowSymLinks, stateLock, pc,
                  last, sanVars, data, files>>

\* The world and the ghost after a call that left the streams as v.ios.
MountMemStreams(v, g) ==
    /\ ios' = v.ios
    /\ ghost' = [g EXCEPT !.owner = PadTo(@, Len(v.ios), 0),
                          !.destruct = PadTo(@, Len(v.ios), FALSE),
                          !.destructs = DestructsAfter(TheWorld, v, g, g.destruct)]

\* doMount, physfs.cpp 1495-1533, with createDirHandle (845-878), of the
\* stream io: [ret, searchPath, code].
doMountOf(sp, io, fname, file, mountPoint, appendToPath, code) ==
    LET Result(ret, path, c) == [ret |-> ret, searchPath |-> path, code |-> c]
        Opened(od) ==
            IF od.funcs = "" THEN Result(0, sp, od.code)
            ELSE Result(1,
                        IF appendToPath
                        THEN Append(sp, [id |-> fname, dirName |-> fname,
                                         funcs |-> od.funcs, io |-> io])
                        ELSE <<[id |-> fname, dirName |-> fname,
                                funcs |-> od.funcs, io |-> io]>> \o sp,
                        od.code)
        Sanitized(san) ==
            IF ~san.ok THEN Result(0, sp, san.err)
            ELSE Opened(openDirectoryOf(TRUE, fname, file, FALSE, code))
    IN  IF AlreadyMounted(sp, fname) THEN Result(1, sp, code)
        ELSE Sanitized(IF mountPoint = NullPath
                       THEN [ok |-> TRUE, dst |-> <<>>, err |-> ERR_OK]
                       ELSE sanitizePlatformIndependentPath(mountPoint))

\* 'if (!retval)' of PHYSFS_mountMemory, physfs.cpp 1558.
mountMemoryFailed(retval) == retval = 0

\* PHYSFS_mountMemory, physfs.cpp 1545-1566: buf is the buffer of this call,
\* file what it holds.
PHYSFS_mountMemory(t, file, fname, mountPoint, appendToPath) ==
    LET Made(w, io) ==
            LET Mounted(r) ==
                    /\ searchPath' = r.searchPath
                    /\ errCode' = [errCode EXCEPT ![t] = r.code]
                    /\ reply' = [op |-> "mountMemory", ret |-> r.ret, io |-> io,
                                 fresh |-> ~AlreadyMounted(searchPath, fname)]
                    /\ LET Recorded(g) ==
                               IF mountMemoryFailed(r.ret)
                               THEN MountMemStreams(
                                        io_destroy(w, io),
                                        [g EXCEPT !.destruct[io] = FALSE])
                               ELSE MountMemStreams(w, g)
                       IN  Recorded([mounts |-> Append(ghost.mounts,
                                                     [io |-> io, fname |-> fname,
                                                      ret |-> r.ret,
                                                      fresh |-> ~AlreadyMounted(searchPath, fname)]),
                                   owner |-> Append(ghost.owner, Len(ghost.mounts) + 1),
                                   destruct |-> Append(ghost.destruct, TRUE),
                                   destructs |-> Append(ghost.destructs, 0)])
            IN  Mounted(doMountOf(searchPath, io, fname, file, mountPoint,
                                  appendToPath, errCode[t]))
    IN  /\ Len(ghost.mounts) < MaxMemMounts
        /\ Made(World(data, Append(ios, createMemoryIo), files), Len(ios) + 1)
        /\ UNCHANGED <<openReadList, MountMemKeep>>

\* PHYSFS_unmount, physfs.cpp 1604-1628, with freeDirHandle (894-909) and
\* UNPK_closeArchive (archivers/physfs_archiver_unpacked.cpp 118-126).
MountMemUnmount(t, oldDir) ==
    LET Freed(k) ==
            IF ~freeDirHandle(searchPath[k], openReadList)
            THEN /\ errCode' = [errCode EXCEPT ![t] = ERR_FILES_STILL_OPEN]
                 /\ reply' = [op |-> "unmount", ret |-> 0, io |-> searchPath[k].io,
                              fresh |-> FALSE]
                 /\ UNCHANGED <<searchPath, ios, ghost>>
            ELSE /\ searchPath' = [j \in 1..(Len(searchPath) - 1) |->
                                      IF j < k THEN searchPath[j] ELSE searchPath[j + 1]]
                 /\ reply' = [op |-> "unmount", ret |-> 1, io |-> searchPath[k].io,
                              fresh |-> FALSE]
                 /\ MountMemStreams(io_destroy(TheWorld, searchPath[k].io), ghost)
                 /\ UNCHANGED errCode
    IN  /\ IF AlreadyMounted(searchPath, oldDir)
           THEN Freed(CHOOSE k \in 1..Len(searchPath) : searchPath[k].dirName = oldDir)
           ELSE /\ errCode' = [errCode EXCEPT ![t] = ERR_NOT_MOUNTED]
                /\ reply' = [op |-> "unmount", ret |-> 0, io |-> 0, fresh |-> FALSE]
                /\ UNCHANGED <<searchPath, ios, ghost>>
        /\ UNCHANGED <<openReadList, MountMemKeep>>

\* PHYSFS_openRead, physfs.cpp 2318-2364, of the file that every archive of
\* the model holds: the first mount of the search path opens it.
MountMemOpenRead(t) ==
    LET Opened(r) ==
            /\ openReadList' = <<[dirHandle |-> searchPath[1].id, io |-> r.rc]>>
                                   \o openReadList
            /\ reply' = [op |-> "openRead", ret |-> 1, io |-> r.rc, fresh |-> FALSE]
            /\ MountMemStreams(r.w, ghost)
    IN  /\ searchPath # <<>>
        /\ Len(openReadList) < MaxOpen
        /\ Len(ios) + 2 <= MaxMemIos
        /\ Opened(UNPK_openReadAt(TheWorld, searchPath[1].io, Entry))
        /\ UNCHANGED <<searchPath, errCode, MountMemKeep>>

\* PHYSFS_close, physfs.cpp 2411-2428, of handle k of openReadList.
MountMemClose(t, k) ==
    /\ k \in 1..Len(openReadList)
    /\ openReadList' = [j \in 1..(Len(openReadList) - 1) |->
                           IF j < k THEN openReadList[j] ELSE openReadList[j + 1]]
    /\ reply' = [op |-> "close", ret |-> 1, io |-> openReadList[k].io, fresh |-> FALSE]
    /\ MountMemStreams(io_destroy(TheWorld, openReadList[k].io), ghost)
    /\ UNCHANGED <<searchPath, errCode, MountMemKeep>>

MountMemMounts ==
    \E file \in MountMemFiles, fname \in MountMemNames, mountPoint \in MountMemPoints,
       appendToPath \in BOOLEAN :
        PHYSFS_mountMemory("t1", file, fname, mountPoint, appendToPath)
MountMemUnmounts == \E oldDir \in MountMemNames : MountMemUnmount("t1", oldDir)
MountMemOpens == MountMemOpenRead("t1")
MountMemCloses == \E k \in 1..MaxOpen : MountMemClose("t1", k)

MountMemNext ==
    \/ MountMemMounts
    \/ MountMemUnmounts
    \/ MountMemOpens
    \/ MountMemCloses

SpecMountMem == MountMemInit /\ [][MountMemNext]_vars

-----------------------------------------------------------------------------
(* C36: the callback of PHYSFS_mountMemory.                                  *)

\* The source of call n is in the search path or has a handle open.
SourceInUse(n) ==
    \/ AlreadyMounted(searchPath, ghost.mounts[n].fname)
    \/ \E k \in 1..Len(openReadList) :
          openReadList[k].dirHandle = ghost.mounts[n].fname

\* The stream of a call that has just returned success belongs to a mount
\* of the search path.
StreamOwned ==
    (reply.op = "mountMemory" /\ reply.ret = 1) =>
        \E k \in 1..Len(searchPath) : searchPath[k].io = reply.io

\* The callback of call n has run once when the call returned success and
\* its source is in use no more, and never when the call returned failure.
CallbackOnce(n) ==
    /\ ghost.destructs[n] <= 1
    /\ ghost.mounts[n].ret = 0 => ghost.destructs[n] = 0
    /\ (ghost.mounts[n].ret = 1 /\ ~SourceInUse(n)) => ghost.destructs[n] = 1

\* C36: for every PHYSFS_mountMemory call that returns success, the stream
\* wrapping the caller's buffer is owned by a mount in the search path, and
\* once that source has been unmounted and every handle opened from it has
\* been closed, the caller's destructor callback has been invoked exactly
\* once on the buffer; for every PHYSFS_mountMemory call that returns
\* failure the callback is never invoked.
C36_MountMemoryCallback ==
    /\ StreamOwned
    /\ \A n \in 1..Len(ghost.mounts) : CallbackOnce(n)

\* The same for the calls whose name was not in the search path.
C36_FreshName ==
    /\ reply.fresh => StreamOwned
    /\ \A n \in 1..Len(ghost.mounts) : ghost.mounts[n].fresh => CallbackOnce(n)

\* A second buffer was mounted under a name that was mounted, with success,
\* the source has been unmounted, and the callback has not run on it.
C36_Leaked ==
    /\ Len(ghost.mounts) = 2
    /\ ghost.mounts[2].ret = 1 /\ ~ghost.mounts[2].fresh
    /\ searchPath = <<>> /\ openReadList = <<>>
    /\ ghost.destructs = <<1, 0>>


-----------------------------------------------------------------------------
(* C37: longest_root and the scratch buffer of a lookup.                     *)

\* i->rootlen of a mount: 0 without a sub-root.
RootLenOf(h) == IF h.hasRoot THEN Len(h.root) ELSE 0

LongestRootCovers ==
    \A k \in 1..Len(searchPath) : longest_root >= RootLenOf(searchPath[k])

WriteDirUnrooted == ~writeDir.hasRoot /\ writeDir.root = <<>>

\* A call of verifyPath of a lookup: the path starts behind at least
\* rootlen + 1 characters of scratch space, and the path left for the
\* backend, the sub-root and its '/' in front, starts and ends inside the
\* buffer.
PrefixInBuffer(c) ==
    /\ c.from >= RootLenOf(c.h) + 2
    /\ c.room >= c.from
    /\ c.at >= 1
    /\ c.at <= c.room
    /\ c.at >= c.from - (RootLenOf(c.h) + 1)
    /\ (c.ok /\ c.h.hasRoot) =>
           /\ c.at + RootLenOf(c.h) <= c.room
           /\ SubSeq(c.arcfname, 1, RootLenOf(c.h)) = c.h.root

\* The buffer of a lookup is as long as the path, the scratch space in front
\* of it and the NUL behind it.
BufferOfLookup ==
    reply.calls # <<>> =>
        reply.calls[1].room = reply.calls[1].from + Len(reply.calls[1].path)

\* C37: in every reachable state longest_root is at least the length of the
\* sub-root of every mount of the search path and the write dir has no
\* sub-root, and in every lookup the sub-root and the '/' that verifyPath
\* writes in front of the path lie inside the scratch buffer of that call
\* (strlen(path) + longest_root + 2 characters, the path at offset
\* longest_root + 1).
C37_LongestRoot ==
    /\ LongestRootCovers
    /\ WriteDirUnrooted
    /\ reply.op = "lookup" =>
           BufferOfLookup /\ \A c \in VerifyCalls : PrefixInBuffer(c)

\* A lookup of "m" in a mount with the sub-root "g" while longest_root is 1:
\* the backend is given "g/m", which starts at the first character of the
\* buffer of four.
C37_Witness ==
    /\ reply.op = "lookup"
    /\ longest_root = 1
    /\ \E c \in VerifyCalls :
        /\ c.ok /\ c.h.hasRoot /\ c.h.root = <<"g">>
        /\ c.path = <<"m">>
        /\ c.arcfname = <<"g", "/", "m">>
        /\ c.from = 3 /\ c.at = 1 /\ c.room = 4


-----------------------------------------------------------------------------
(* PHYSFS_enumerateFiles, physfs.cpp 2061-2078: PHYSFS_enumerate with the    *)
(* callback enumFilesCallback, which keeps the names it is handed in a list  *)
(* it searches with locateInStringList.  reply holds the                     *)
(* EnumStringListCallbackData of the call (list, errcode) and what the call  *)
(* returned: "list" for the list, "NULL" for nullptr, "pending" while the    *)
(* call is under way.  An allocation inside the callback may fail.           *)

ERR_OUT_OF_MEMORY == "OUT_OF_MEMORY"

\* strcmp(a, b), from the k-th character on: the difference of the first
\* two characters that differ, the end of a string being the character 0.
RECURSIVE strcmp(_, _, _)
strcmp(a, b, k) ==
    LET Code(s) == IF k > Len(s) THEN 0 ELSE CharCode(s[k])
    IN  IF Code(a) # Code(b) THEN Code(a) - Code(b)
        ELSE IF Code(a) = 0 THEN 0
        ELSE strcmp(a, b, k + 1)

\* A search that never finds the name and gives the end of the list.
locateInStringList_End(str, list, len, lo) == [found |-> FALSE, pos |-> len + lo]

\* locateInStringList, physfs.cpp 1994-2020: the loop from len and lo on.
\* list[middle] of the code is list[middle + 1] here.  [found, pos]: whether
\* the function returns 1, and *pos, which it sets only when it returns 0.
RECURSIVE locateInStringList(_, _, _, _)
locateInStringList(str, list, len, lo) ==
    LET half_len == len \div 2
        middle == lo + half_len
        Halved(cmp) ==
            IF cmp = 0 THEN [found |-> TRUE, pos |-> Len(list)]
            ELSE IF cmp > 0 THEN locateInStringList(str, list, half_len, lo)
            ELSE locateInStringList(str, list, len - (half_len + 1), middle + 1)
    IN  IF len > 0 THEN Halved(strcmp(list[middle + 1], str, 1))
        ELSE [found |-> FALSE, pos |-> lo]

\* enumFilesCallback, physfs.cpp 2022-2059, on the list and errcode of pecd
\* with the name str: [list, errcode, ret].  oom: Realloc or Malloc fails.
enumFilesCallback(pecd, str, oom) ==
    LET Located(at) ==
            IF at.found
            THEN [list |-> pecd.list, errcode |-> pecd.errcode, ret |-> ENUM_OK]
            ELSE IF oom
            THEN [list |-> pecd.list, errcode |-> ERR_OUT_OF_MEMORY, ret |-> ENUM_ERROR]
            ELSE [list |-> SubSeq(pecd.list, 1, at.pos) \o <<str>>
                              \o SubSeq(pecd.list, at.pos + 1, Len(pecd.list)),
                  errcode |-> pecd.errcode, ret |-> ENUM_OK]
    IN  Located(locateInStringList(str, pecd.list, Len(pecd.list), 0))

FilesKeep == <<searchPath, writeDir, openReadList, openWriteList, longest_root,
               allowSymLinks, sanVars, data, ios, files>>

FilesInit ==
    /\ EngInit
    /\ SanIdle
    /\ data = <<>> /\ ios = <<>> /\ files = <<>>
    /\ ghost = <<>>
    /\ reply = [op |-> "none", list |-> <<>>, errcode |-> ERR_OK, ret |-> "none"]

\* PHYSFS_enumerateFiles up to the loop of PHYSFS_enumerate, physfs.cpp
\* 2061-2066 and 2150-2176: an empty list; a path that sanitation rejects
\* makes PHYSFS_enumerate return 1 at once, and the empty list is returned.
enumerateFilesBegin(t, path) ==
    /\ pc[t].at = "idle"
    /\ CanGrab(t)
    /\ ghost' = <<>>
    /\ LET Sanitized(san) ==
               IF ~san.ok
               THEN /\ errCode' = [errCode EXCEPT ![t] = san.err]
                    /\ last' = Returned("enumerateFiles", t, "", path, 1, {}, 0)
                    /\ reply' = [op |-> "enumerateFiles", list |-> <<>>,
                                 errcode |-> ERR_OK, ret |-> "list"]
                    /\ UNCHANGED <<stateLock, pc>>
               ELSE /\ stateLock' = t
                    /\ pc' = [pc EXCEPT ![t] =
                                Enumerating("loop",
                                            [fn |-> path, fname |-> longest_root + 2],
                                            1, PathBuffer(longest_root + 1, san.dst),
                                            ENUM_OK, {}, <<>>, 0, FALSE, <<>>)]
                    /\ reply' = [op |-> "enumerateFiles", list |-> <<>>,
                                 errcode |-> ERR_OK, ret |-> "pending"]
                    /\ UNCHANGED <<errCode, last>>
       IN  Sanitized(sanitizePlatformIndependentPath(path))
    /\ UNCHANGED FilesKeep

\* An invocation of enumFilesCallback with the name at hand; what it returns
\* goes the way of the answer of any callback (physfs_tree.cpp 134-138,
\* physfs.cpp 2099-2102 and 2200-2203).
enumerateFilesCallback(t, oom) ==
    /\ pc[t].at = "callback"
    /\ LET m == pc[t]
           h == searchPath[m.k]
           Handed(r) ==
               /\ reply' = [reply EXCEPT !.list = r.list, !.errcode = r.errcode]
               /\ ghost' = Append(ghost, [dh |-> h.id, name |-> m.name, answer |-> r.ret])
               /\ pc' = [pc EXCEPT ![t] =
                           IF r.ret = ENUM_OK /\ m.i > 0
                           THEN Enumerating("entries", m, m.k, m.buf, ENUM_OK, m.calls,
                                            m.kids, m.i + 1, m.filter, <<>>)
                           ELSE Enumerating("loop", m, m.k + 1, m.buf, r.ret, m.calls,
                                            <<>>, 0, FALSE, <<>>)]
               /\ errCode' = IF r.ret = ENUM_ERROR
                             THEN [errCode EXCEPT ![t] = ERR_APP_CALLBACK] ELSE errCode
       IN  Handed(enumFilesCallback(reply, m.name, oom))
    /\ UNCHANGED <<stateLock, last>>
    /\ UNCHANGED FilesKeep

\* PHYSFS_enumerate returns (physfs.cpp 2213-2215) and PHYSFS_enumerateFiles
\* with it, 2066-2078: on 0 the list is freed, the error code of the
\* callback replaces APP_CALLBACK and nullptr is returned; otherwise the
\* list is.
enumerateFilesReturn(t) ==
    /\ pc[t].at = "loop"
    /\ ~enumerateGoesOn(searchPath, pc[t].k, pc[t].retval)
    /\ stateLock' = NoThread
    /\ LET Returns(failed) ==
               /\ last' = Returned("enumerateFiles", t, "", pc[t].fn,
                                   IF failed THEN 0 ELSE 1, pc[t].calls, Len(ghost))
               /\ reply' = IF failed THEN [reply EXCEPT !.list = <<>>, !.ret = "NULL"]
                           ELSE [reply EXCEPT !.ret = "list"]
               /\ errCode' = IF failed /\ errCode[t] = ERR_APP_CALLBACK
                             THEN [errCode EXCEPT ![t] = reply.errcode] ELSE errCode
       IN  Returns(pc[t].retval = ENUM_ERROR)
    /\ pc' = [pc EXCEPT ![t] = Idle]
    /\ UNCHANGED ghost
    /\ UNCHANGED FilesKeep

-----------------------------------------------------------------------------
(* SpecEnumFiles: one thread mounting "A" and "B" at the root, at "m" and at *)
(* "x/m", head or tail, permitting and forbidding symbolic links, and        *)
(* calling PHYSFS_enumerateFiles on the paths of SpecEnum.                   *)

FilesMount ==
    \E newDir \in PathMountNames, mountPoint \in EnumMountPoints,
       appendToPath \in BOOLEAN :
        PHYSFS_mount("t1", newDir, mountPoint, appendToPath)

FilesMountLink == doMountLink("t1")

FilesPermitSymbolicLinks ==
    \E allow \in BOOLEAN : PHYSFS_permitSymbolicLinks("t1", allow)

FilesBegin ==
    \E path \in EnumPaths \cup {<<"x", COLON>>} : enumerateFilesBegin("t1", path)

FilesVisit == enumerateMount("t1")

FilesEntry == enumerateEntry("t1")

FilesCallback == \E oom \in BOOLEAN : enumerateFilesCallback("t1", oom)

FilesReturn == enumerateFilesReturn("t1")

FilesNext ==
    \/ FilesMount
    \/ FilesMountLink
    \/ FilesPermitSymbolicLinks
    \/ FilesBegin
    \/ FilesVisit
    \/ FilesEntry
    \/ FilesCallback
    \/ FilesReturn

SpecEnumFiles == FilesInit /\ [][FilesNext]_vars


-----------------------------------------------------------------------------
(* C38: the list of PHYSFS_enumerateFiles.                                   *)

\* The list of the call of PHYSFS_enumerateFiles that is under way or was
\* the last to return, unless it returned nullptr.
FilesListed == reply.op = "enumerateFiles" /\ reply.ret # "NULL"

StrictlyAscending(list) ==
    \A k \in 1..(Len(list) - 1) : strcmp(list[k], list[k + 1], 1) < 0

NoNameTwice(list) ==
    \A j, k \in 1..Len(list) : j # k => list[j] # list[k]

\* The names the callback was handed and took.
NamesTaken ==
    { ghost[j].name : j \in { i \in 1..Len(ghost) : ghost[i].answer = ENUM_OK } }

\* After every invocation of the callback the list is sorted, holds no name
\* twice, and holds the names handed to the callback so far.
SortedPrefix ==
    FilesListed =>
        /\ StrictlyAscending(reply.list)
        /\ NoNameTwice(reply.list)
        /\ Range(reply.list) = NamesTaken

\* The entries of the directory arcfname of the source of h by name, without
\* the symbolic links when they are forbidden and the backend supports them.
EntryNames(h, arcfname) ==
    { BaseName(q) :
        q \in { r \in DOMAIN Tree(h.dirName) :
                  /\ ParentOf(r) = arcfname
                  /\ ~(~allowSymLinks /\ IsDirSource(h.dirName)
                         /\ Tree(h.dirName)[r] = FT_SYMLINK) } }

\* The names the mount h yields for the sanitized path dir in the call that
\* has returned: the next segment of its mount point when dir is a prefix
\* of it, the entries of the directory that its backend was asked to
\* enumerate otherwise, none when it was not asked.
MountYields(h, dir) ==
    IF partOfMountPoint(h, dir) THEN {enumerateFromMountPoint(h, dir)}
    ELSE UNION { EntryNames(h, c.path) :
                   c \in { d \in last.calls : d.dh = h.id /\ d.fn = "enumerate" } }

UnionOfMounts(san) ==
    IF ~san.ok THEN {}
    ELSE UNION { MountYields(searchPath[k], san.dst) : k \in 1..Len(searchPath) }

\* The call has returned the list, which holds the names the mounts yield.
ReturnedUnion ==
    /\ reply.ret = "list"
    /\ last.op = "enumerateFiles" /\ last.ret = 1
    /\ Range(reply.list) = UnionOfMounts(sanitizePlatformIndependentPath(last.path))

\* A step of PHYSFS_enumerateFiles: the list stays sorted and free of
\* duplicates, and a call that returns other than nullptr returns the names
\* of the mounts.
C38_FilesStep ==
    /\ SortedPrefix'
    /\ (reply.ret # "list" /\ reply'.ret = "list") => ReturnedUnion'
    /\ (reply.ret = "pending" /\ reply'.ret = "NULL") =>
           last'.ret = 0 /\ errCode'["t1"] = ERR_OUT_OF_MEMORY

\* C38: the list returned by PHYSFS_enumerateFiles(dir) is in strictly
\* ascending strcmp order, holds no name twice, and its names are the union
\* over the mounts of the search path of the names each mount yields for
\* dir, the next segment of a mount point included; the list is sorted and
\* free of duplicates after every invocation of the callback.
C38_EnumerateFiles == [][C38_FilesStep]_vars

\* The directory "A" and the archive "B" are both mounted at the root, links
\* are permitted, and the root has been listed: five names were handed to
\* the callback, "x" and "l" twice, and the list is g, l, x.
C38_Witness ==
    /\ reply.op = "enumerateFiles" /\ reply.ret = "list"
    /\ Len(searchPath) = 2
    /\ Len(ghost) = 5
    /\ reply.list = << <<"g">>, <<"l">>, <<"x">> >>
    /\ last.path = <<>>


-----------------------------------------------------------------------------
(* The registry of archivers, physfs.cpp 1089-1121 and 1252-1347.  In        *)
(* SpecRegistry data is the registry, archivers[] with the extension of      *)
(* archiveInfo[], in order: each archiver [arc, extension, sig, writes] is   *)
(* the address arc of the copy doRegisterArchiver made, its extension, the   *)
(* signature of the files its openArchive takes, and whether it opens an     *)
(* archive for writing.  searchPath and writeDir are lists of                *)
(* [dirName, funcs], funcs being the address of the archiver or 0 for        *)
(* __PHYSFS_Archiver_DIR, which is in no registry; ghost.made counts the     *)
(* copies made so far, and reply is the last call with the registry before   *)
(* it.                                                                       *)

MaxRegistered == 4

ERR_DUPLICATE == "DUPLICATE"

\* GRP and QPAK as initStaticArchivers registers them (physfs.cpp 981-984).
StaticArchivers ==
    <<[arc |-> 1, extension |-> <<"G", "R", "P">>, sig |-> "KenSilverman", writes |-> FALSE],
      [arc |-> 2, extension |-> <<"P", "A", "K">>, sig |-> "PACK", writes |-> FALSE]>>

\* The archivers an application registers: one that takes the extension of
\* GRP in lower case, one of its own that can write, under two spellings,
\* one of a later version of the interface, and one that lacks a function.
RegistryArchivers ==
    {[newer |-> FALSE, complete |-> TRUE, extension |-> <<"g", "r", "p">>,
      sig |-> "KenSilverman", writes |-> FALSE],
     [newer |-> FALSE, complete |-> TRUE, extension |-> <<"L", "V", "L">>,
      sig |-> "LEVEL", writes |-> TRUE],
     [newer |-> FALSE, complete |-> TRUE, extension |-> <<"l", "v", "l">>,
      sig |-> "LEVEL", writes |-> TRUE],
     [newer |-> TRUE, complete |-> TRUE, extension |-> <<"M", "V", "L">>,
      sig |-> "DMVL", writes |-> FALSE],
     [newer |-> FALSE, complete |-> FALSE, extension |-> <<"M", "V", "L">>,
      sig |-> "DMVL", writes |-> FALSE]}

RegistryExtensions ==
    {<<"g", "r", "p">>, <<"P", "A", "K">>, <<"l", "v", "l">>, <<"M", "V", "L">>}

\* What the platform holds under a name: a directory, or a file with a
\* signature.  The names have no extension.
RegistrySources == {"d", "k", "v"}
RegistryIsDirectory(name) == name = "d"
RegistrySig(name) == IF name = "k" THEN "KenSilverman" ELSE "LEVEL"

RegistryInit ==
    /\ searchPath = <<>>
    /\ writeDir = <<>>
    /\ openReadList = <<>>
    /\ openWriteList = <<>>
    /\ longest_root = 0
    /\ allowSymLinks = FALSE
    /\ stateLock = NoThread
    /\ pc = [t \in Threads |-> Idle]
    /\ errCode = [t \in Threads |-> ERR_OK]
    /\ last = NoCall
    /\ SanIdle
    /\ data = StaticArchivers
    /\ ios = <<>> /\ files = <<>>
    /\ ghost = [made |-> Len(StaticArchivers)]
    /\ reply = [op |-> "none", arg |-> <<>>, ret |-> 0, was |-> StaticArchivers]

RegistryKeep ==
    <<openReadList, openWriteList, longest_root, allowSymLinks, stateLock, pc,
      last, sanVars, ios, files>>

\* An archiverInUse that finds no handle.
archiverInUse_Never(arc, list) == FALSE

\* archiverInUse, physfs.cpp 1089-1096.
archiverInUse(arc, list) ==
    \E k \in 1..Len(list) : list[k].funcs = arc

\* The first archiver of the registry with the extension, 0 when none has it.
RegisteredAs(registry, ext) ==
    LET ks == { k \in 1..Len(registry) : SameExtension(registry[k].extension, ext) }
    IN  IF ks = {} THEN 0 ELSE CHOOSE k \in ks : \A j \in ks : k <= j

\* doRegisterArchiver, physfs.cpp 1252-1321: [registry, ret, err].  arc is
\* the address of the copy.
doRegisterArchiver(registry, archiver, arc) ==
    IF archiver.newer THEN [registry |-> registry, ret |-> 0, err |-> ERR_UNSUPPORTED]
    ELSE IF ~archiver.complete
    THEN [registry |-> registry, ret |-> 0, err |-> ERR_INVALID_ARGUMENT]
    ELSE IF RegisteredAs(registry, archiver.extension) # 0
    THEN [registry |-> registry, ret |-> 0, err |-> ERR_DUPLICATE]
    ELSE [registry |-> Append(registry,
                              [arc |-> arc, extension |-> archiver.extension,
                               sig |-> archiver.sig, writes |-> archiver.writes]),
          ret |-> 1, err |-> ERR_OK]

\* doDeregisterArchiver, physfs.cpp 1099-1120: [registry, ret, err].
doDeregisterArchiver(registry, idx, sp, wd) ==
    IF archiverInUse(registry[idx].arc, sp) \/ archiverInUse(registry[idx].arc, wd)
    THEN [registry |-> registry, ret |-> 0, err |-> ERR_FILES_STILL_OPEN]
    ELSE [registry |-> SubSeq(registry, 1, idx - 1)
                          \o SubSeq(registry, idx + 1, Len(registry)),
          ret |-> 1, err |-> ERR_OK]

RegistryReturned(op, arg, r) ==
    /\ data' = r.registry
    /\ reply' = [op |-> op, arg |-> arg, ret |-> r.ret, was |-> data]
    /\ errCode' = [errCode EXCEPT !["t1"] = CodeAfter(errCode["t1"], r.err)]

\* PHYSFS_registerArchiver, physfs.cpp 1323-1330.
PHYSFS_registerArchiver(archiver) ==
    /\ ghost.made < MaxRegistered
    /\ LET Registered(r) ==
               /\ RegistryReturned("register", archiver.extension, r)
               /\ ghost' = [ghost EXCEPT !.made = IF r.ret = 1 THEN @ + 1 ELSE @]
       IN  Registered(doRegisterArchiver(data, archiver, ghost.made + 1))
    /\ UNCHANGED <<searchPath, writeDir>>
    /\ UNCHANGED RegistryKeep

\* PHYSFS_deregisterArchiver, physfs.cpp 1332-1347.
PHYSFS_deregisterArchiver(ext) ==
    /\ LET At(idx) ==
               IF idx = 0
               THEN [registry |-> data, ret |-> 0, err |-> ERR_NOT_FOUND]
               ELSE doDeregisterArchiver(data, idx, searchPath, writeDir)
       IN  RegistryReturned("deregister", ext, At(RegisteredAs(data, ext)))
    /\ UNCHANGED <<searchPath, writeDir, ghost>>
    /\ UNCHANGED RegistryKeep

\* The loop of openDirectory over the archivers for a file without an
\* extension, physfs.cpp 733-737, from archiver k on: the address of the
\* first archiver whose openArchive takes the file, 0 when none does.
RECURSIVE RegistryOpen(_, _, _, _)
RegistryOpen(registry, k, sig, forWriting) ==
    IF k > Len(registry) THEN 0
    ELSE IF registry[k].sig = sig /\ (forWriting => registry[k].writes)
    THEN registry[k].arc
    ELSE RegistryOpen(registry, k + 1, sig, forWriting)

\* openDirectory, physfs.cpp 695-744, of the name: [ok, funcs, err].
RegistryOpenDirectory(registry, name, forWriting) ==
    LET Tried(arc) ==
            IF arc = 0 THEN [ok |-> FALSE, funcs |-> 0, err |-> ERR_UNSUPPORTED]
            ELSE [ok |-> TRUE, funcs |-> arc, err |-> ERR_OK]
    IN  IF RegistryIsDirectory(name) THEN [ok |-> TRUE, funcs |-> 0, err |-> ERR_OK]
        ELSE Tried(RegistryOpen(registry, 1, RegistrySig(name), forWriting))

\* PHYSFS_mount, physfs.cpp 1495-1543, at the end of the search path.
RegistryMount(newDir) ==
    /\ LET Opened(d) ==
               /\ searchPath' = IF d.ok
                                THEN Append(searchPath, [dirName |-> newDir, funcs |-> d.funcs])
                                ELSE searchPath
               /\ reply' = [op |-> "mount", arg |-> newDir,
                            ret |-> IF d.ok THEN 1 ELSE 0, was |-> data]
               /\ errCode' = [errCode EXCEPT !["t1"] = CodeAfter(errCode["t1"], d.err)]
       IN  IF \E k \in 1..Len(searchPath) : searchPath[k].dirName = newDir
           THEN /\ reply' = [op |-> "mount", arg |-> newDir, ret |-> 1, was |-> data]
                /\ UNCHANGED <<searchPath, errCode>>
           ELSE Opened(RegistryOpenDirectory(data, newDir, FALSE))
    /\ UNCHANGED <<data, writeDir, ghost>>
    /\ UNCHANGED RegistryKeep

\* PHYSFS_unmount, physfs.cpp 1604-1628; no file is open.
RegistryUnmount(oldDir) ==
    /\ LET ks == { k \in 1..Len(searchPath) : searchPath[k].dirName = oldDir }
       IN  /\ searchPath' = SelectSeq(searchPath, LAMBDA h : h.dirName # oldDir)
           /\ reply' = [op |-> "unmount", arg |-> oldDir,
                        ret |-> IF ks = {} THEN 0 ELSE 1, was |-> data]
           /\ errCode' = IF ks = {} THEN [errCode EXCEPT !["t1"] = ERR_NOT_MOUNTED]
                         ELSE errCode
    /\ UNCHANGED <<data, writeDir, ghost>>
    /\ UNCHANGED RegistryKeep

\* PHYSFS_setWriteDir, physfs.cpp 1435-1454; newDir "" is nullptr.
RegistrySetWriteDir(newDir) ==
    /\ LET Opened(d) ==
               /\ writeDir' = IF d.ok THEN <<[dirName |-> newDir, funcs |-> d.funcs]>>
                              ELSE <<>>
               /\ reply' = [op |-> "setWriteDir", arg |-> newDir,
                            ret |-> IF d.ok THEN 1 ELSE 0, was |-> data]
               /\ errCode' = [errCode EXCEPT !["t1"] = CodeAfter(errCode["t1"], d.err)]
       IN  IF newDir = ""
           THEN /\ writeDir' = <<>>
                /\ reply' = [op |-> "setWriteDir", arg |-> newDir, ret |-> 1, was |-> data]
                /\ UNCHANGED errCode
           ELSE Opened(RegistryOpenDirectory(data, newDir, TRUE))
    /\ UNCHANGED <<data, searchPath, ghost>>
    /\ UNCHANGED RegistryKeep

RegistryRegisters == \E archiver \in RegistryArchivers : PHYSFS_registerArchiver(archiver)
RegistryDeregisters == \E ext \in RegistryExtensions : PHYSFS_deregisterArchiver(ext)
RegistryMounts == \E newDir \in RegistrySources : RegistryMount(newDir)
RegistryUnmounts == \E oldDir \in RegistrySources : RegistryUnmount(oldDir)
RegistrySetsWriteDir == \E newDir \in RegistrySources \cup {""} : RegistrySetWriteDir(newDir)

RegistryNext ==
    \/ RegistryRegisters
    \/ RegistryDeregisters
    \/ RegistryMounts
    \/ RegistryUnmounts
    \/ RegistrySetsWriteDir

SpecRegistry == RegistryInit /\ [][RegistryNext]_vars

-----------------------------------------------------------------------------
(* C39: the registry of archivers.                                           *)

RegisteredArcs == { data[k].arc : k \in 1..Len(data) }

NoTwoOfAnExtension ==
    \A j, k \in 1..Len(data) :
        j # k => ~SameExtension(data[j].extension, data[k].extension)

\* Registering an archiver whose extension is taken fails with DUPLICATE and
\* leaves the registry as it was.
DuplicateRefused ==
    (reply.op = "register" /\ \E k \in 1..Len(reply.was) :
                                  SameExtension(reply.was[k].extension, reply.arg))
        => reply.ret = 0 /\ data = reply.was
             /\ errCode["t1"] \in {ERR_DUPLICATE, ERR_UNSUPPORTED, ERR_INVALID_ARGUMENT}

\* The mounts and the write dir that use the archiver arc.
UsersOf(arc) ==
    { h \in Range(searchPath) \cup Range(writeDir) : h.funcs = arc }

\* Deregistering an extension: NOT_FOUND when no archiver has it,
\* FILES_STILL_OPEN when a mount or the write dir uses the archiver, the
\* registry as it was in both cases; the registry without it otherwise.
DeregisterAnswers ==
    reply.op = "deregister" =>
        LET idx == RegisteredAs(reply.was, reply.arg)
        IN  IF idx = 0
            THEN reply.ret = 0 /\ errCode["t1"] = ERR_NOT_FOUND /\ data = reply.was
            ELSE IF UsersOf(reply.was[idx].arc) # {}
            THEN reply.ret = 0 /\ errCode["t1"] = ERR_FILES_STILL_OPEN
                   /\ data = reply.was
            ELSE reply.ret = 1
                   /\ data = SelectSeq(reply.was, LAMBDA a : a.arc # reply.was[idx].arc)

\* The archiver of every mount and of the write dir is registered, or is
\* the built-in directory archiver.
BackendsRegistered ==
    \A h \in Range(searchPath) \cup Range(writeDir) :
        h.funcs = 0 \/ h.funcs \in RegisteredArcs

\* C39: in every reachable state no two registered archivers have
\* extensions that are equal but for the case of letters (registering a
\* second one fails with DUPLICATE, the registry unchanged), an archiver
\* that a mount of the search path or the write dir uses cannot be
\* deregistered (FILES_STILL_OPEN, the registry unchanged; NOT_FOUND for an
\* unknown extension), and so the archiver of every mount is registered or
\* is the built-in directory archiver.
C39_Registry ==
    /\ NoTwoOfAnExtension
    /\ DuplicateRefused
    /\ DeregisterAnswers
    /\ BackendsRegistered

\* The application's archiver has opened the write dir "v", the search path
\* holds the GRP archive "k", and deregistering "lvl" has just been refused.
C39_Witness ==
    /\ reply.op = "deregister" /\ reply.arg = <<"l", "v", "l">>
    /\ reply.ret = 0 /\ errCode["t1"] = ERR_FILES_STILL_OPEN
    /\ writeDir # <<>> /\ writeDir[1].dirName = "v" /\ writeDir[1].funcs > 2
    /\ \E h \in Range(searchPath) : h.dirName = "k" /\ h.funcs = 1
    /\ data = reply.was


-----------------------------------------------------------------------------
(* C40: curPos against the 64-bit size of the entry.                         *)

\* A step of a byte-range stream from the position p: a read that returns
\* rc > 0 bytes was clamped to the bytes left behind p and leaves the
\* position at p + rc, within the entry; a seek that succeeds leaves it at
\* the offset; tell returns the position; and the next read of len bytes
\* asks for the bytes left behind the new position, or len.
CursorStep(p, size) ==
    /\ (reply'.op = "read" /\ reply'.rc > 0) =>
           /\ reply'.asked = Min(size - p, reply'.arg)
           /\ RangeIo'.curPos = p + reply'.rc
           /\ RangeIo'.curPos <= size
    /\ (reply'.op = "seek" /\ reply'.rc # 0) =>
           /\ reply'.arg < size
           /\ RangeIo'.curPos = reply'.arg
    /\ reply'.op = "tell" => reply'.rc = p /\ RangeIo'.curPos = p
    /\ reply'.op \in {"read", "seek"} =>
           \A len \in 1..MaxBytes :
               UNPK_readLen(RangeWorld', ghost'.io, len)
                   = Min(size - (IF reply'.op = "seek" /\ reply'.rc # 0 THEN reply'.arg
                                 ELSE IF reply'.rc > 0 THEN p + reply'.rc
                                 ELSE p), len)

\* C40: the cursor of a byte-range stream is exact for every size the entry
\* record holds: after a read up to, or a seek to, an offset p within the
\* entry, tell is p and the next read is clamped to size - p, curPos never
\* wrapping around, the entries no shorter than the wrap of curPos
\* included.
C40_CursorNoWrap == [][CursorStep(RangeIo.curPos, RangeIo.entry.size)]_vars

\* The same for the entries shorter than the wrap of curPos.
C40_ShortEntries ==
    [][RangeIo.entry.size < CurPosWrap
           => CursorStep(RangeIo.curPos, RangeIo.entry.size)]_vars

\* A seek to the offset of the wrap has succeeded on an entry longer than
\* that, and curPos is 0.
C40_Wrapped ==
    /\ RangeIo.entry.size > CurPosWrap
    /\ reply.op = "seek" /\ reply.arg = CurPosWrap /\ reply.rc # 0
    /\ RangeIo.curPos = 0

=============================================================================
